---- MODULE Spec2Model ----
(***************************************************************************)
(* The scan-to-stock-update pipeline of the inventory application: the     *)
(* three barcode scanner components                                        *)
(*   h5      BarcodeScannerModal (html5-qrcode)                            *)
(*   zx      BarcodeScannerModalZXing (@zxing/browser)                     *)
(*   screen  BarcodeScannerScreen (react-zxing)                            *)
(* One behaviour follows one mounted component (chosen in Init).  Every    *)
(* async function is cut at its awaits; timers carry the time left until   *)
(* they fire; Date.now() differences are kept as elapsed time, saturated   *)
(* at the cooldown (the code only compares them with the cooldown).        *)
(***************************************************************************)
EXTENDS Integers, Sequences, FiniteSets, TLC

\* ------------------------------------------------------------------ bounds
\* Scans followed at the same time: a scan's record is kept while its call is
\* running or one of its timers is pending.
MaxScans == 2
\* The largest stock_quantity a lookup returns.
MaxStock == 1
\* h5_scanCountRef counts up to this (the code only tests it against 0), and so
\* do the counts of stop() calls.
MaxCount == 2
\* The longest step of the clock, in ms (a pending timer makes the step shorter).
TickMs == 1000
\* The most video input devices listVideoInputDevices answers with.
MaxDevices == 3
\* The rows of each of the tables `products` and `categories`.
MaxRows == 2
\* The largest value a form writes into a row.
MaxData == 1
\* The longest object key getKeyFromUrl answers with, in pieces.
MaxKeyLen == 5
\* The most records of the scan history.
MaxHist == 3
\* The latest CURRENT_TIMESTAMP of the history database, in seconds.
MaxTime == 2
MaxRotation == 400
MaxGrid == 4
GridStep == 50

\* ------------------------------------------------------- program constants
\* BarcodeScannerModal: `now - lastScanTimeRef.current < 1000`.
H5_COOLDOWN_MS == 1000
\* BarcodeScannerModal: re-arm timer after handleBarcodeScanned.
H5_REARM_MS == 800
\* BarcodeScannerModal: delay before onProductNotFound.
H5_NOTFOUND_MS == 800
\* BarcodeScannerModalZXing: "Auto-resume scanning after 1 second".
ZX_RESUME_MS == 1000
\* BarcodeScannerModalZXing: delay before onProductNotFound.
ZX_NOTFOUND_MS == 100
\* BarcodeScannerScreen: setLastScannedCode(null) after a failure.
SC_MEMO_RESET_MS == 1000
\* BarcodeScannerScreen: re-arm after a successful scan.
SC_REARM_MS == 800
\* @/constants/ui SCAN_COOLDOWN_MS (the cooldown window, about one second).
SCAN_COOLDOWN_MS == 1000
\* upload.ts: the image types uploadProductImage takes.
ALLOWED_IMAGE_TYPES == {"image/jpeg", "image/png", "image/webp"}
\* upload.ts: the largest file uploadProductImage takes, in bytes.
MAX_FILE_SIZE == 5 * 1024 * 1024

\* ----------------------------------------------------------- environment
\* Barcodes the camera can decode: "A" is the code of a product of the user,
\* "B" is the code of no product.
Codes == {"A", "B"}
NoCode == "none"
ProductCodes == {"A"}

VARIABLES
    component,      \* which scanner component is mounted in this behaviour
    mounted,        \* the component is mounted (not yet closed by the parent)
    frame,          \* the barcode in front of the camera
    scans,          \* the records of the accepted scans (handleBarcodeScanned / handleScan calls)
    timers,         \* pending setTimeout callbacks, with the time left
    presented,      \* a scan was accepted since the barcode in frame last changed
    sinceAccept,    \* BarcodeScannerModalZXing: time since the latest accepted scan (saturated)
    lastOutcome,    \* how the latest resolved scan ended; "none" once a newer scan is
                    \* accepted or the user or the parent has acted on the scanner
    \* BarcodeScannerModal (html5-qrcode)
    h5_isProcessingRef, h5_lastScanAge, h5_scanCountRef, h5_camera, h5_closing,
    h5_lastAccepted,  \* the code of its latest accepted scan (the component keeps no memo of it)
    h5_stopCalls,     \* html5QrCode.stop() calls since the camera last started (up to MaxCount)
    h5_revalidated,   \* the latest handleClose called revalidateInventory
    \* BarcodeScannerModalZXing
    zx_isScannerActive, zx_isProcessing, zx_notification, zx_errorType,
    zx_isScannerReady, zx_lastScannedRef, zx_lastScanAge, zx_scanLockRef,
    zx_isProcessingRef, zx_scannerControlsRef, zx_running, zx_start,
    zx_stopCalls,     \* controls.stop() calls since the camera last started (up to MaxCount)
    zx_reported,      \* the type of the latest handleError call since the latest accepted scan
    \* BarcodeScannerScreen
    sc_isScanning, sc_lastScannedCode, sc_rIsScanning, sc_rLastScannedCode,
    sc_hasPermission,
    \* selectBestCamera and the catch of startScanner, taken alone
    cam_devices,    \* the video input devices listVideoInputDevices answers with (their labels)
    cam_throws,     \* listVideoInputDevices rejects
    cam_failure,    \* why the camera fails to start
    cam_selected,   \* what selectBestCamera returned: the place of the device in the list, 0 for null, -1 before it returns
    cam_kind,       \* the error kind startScanner handed to handleError
    \* the products and categories tables behind the server actions
    db_products,    \* the rows of `products`, by id
    db_categories,  \* the rows of `categories`, by id
    db_rls,         \* the database lets a session see and change its own rows only
    db_caller,      \* the user of the latest server action that returned ("anon": not authenticated)
    db_error,       \* the code of the error the database gave that action ("none": no error)
    db_result,      \* what that action returned: "success" or its `error`
    db_revalidated, \* that action called revalidatePath('/inventory')
    db_deleting,    \* the deleteCategory between its count query and its delete
    \* the bucket of product images behind uploadProductImage and deleteProductImage
    r2_caller,      \* the user of the call ("anon": not authenticated)
    r2_urlGiven,    \* deleteProductImage got a non-empty imageUrl
    r2_key,         \* the key getKeyFromUrl extracts from imageUrl
    r2_file,        \* formData.get('file')
    r2_objects,     \* the keys of the objects in the bucket
    r2_op,          \* the action that ran: "pending", "delete" or "upload"
    r2_calls,       \* the calls of deleteFromR2 and uploadToR2 the action made
    r2_success,     \* the `success` of the result
    \* the inventory_history table of the D1 database
    hist_rows,      \* the records, in the order of their insertion
    hist_now,       \* CURRENT_TIMESTAMP
    hist_caller,    \* the user of the latest call ("anon": not authenticated)
    hist_op,        \* the latest call: "none", "save" or "get"
    hist_result,    \* what the latest getInventoryHistoryD1 returned
    hist_threw,     \* the latest call threw
    hist_given,     \* the imageUrl saveInventoryHistoryD1 was called with, by record id
    \* InventoryPage and the ImageUpload of its product form
    pg_showCreateMenu,      \* showCreateMenu
    pg_showAddProductForm,  \* showAddProductForm
    pg_showBarcodeScanner,  \* showBarcodeScanner
    pg_scannedCode,         \* scannedCode, the initialCode of the form
    pg_late,                \* a handleScan of the hidden scanner may still call back
    pg_origin,              \* what opened the form that is shown: "none", "handoff", "menu"
    pg_handedOff,           \* onProductNotFound was called at least once
    iu_url,                 \* currentImageUrl, as the parent keeps it
    iu_preview,             \* preview
    iu_removes,             \* the calls of onImageRemove (up to MaxCount)
    iu_deleting,            \* handleRemove awaits deleteProductImage
    iu_result,              \* how the latest deleteProductImage ended
    \* ImageCropModal's pure functions
    crop_rotation,          \* the argument of normalizeRotation
    crop_normalized,        \* what normalizeRotation returned
    crop_area,              \* the area given to applyBoundsToArea
    crop_bounds,            \* the bounds given to applyBoundsToArea
    crop_applied,           \* what applyBoundsToArea returned
    crop_op                 \* the function that ran last, or "idle"

sharedVars == <<component, mounted, frame, scans, timers, presented,
                sinceAccept, lastOutcome>>
h5Vars == <<h5_isProcessingRef, h5_lastScanAge, h5_scanCountRef, h5_camera, h5_closing,
            h5_lastAccepted, h5_stopCalls,
            h5_revalidated>>
zxVars == <<zx_isScannerActive, zx_isProcessing, zx_notification, zx_errorType,
            zx_isScannerReady, zx_lastScannedRef, zx_lastScanAge, zx_scanLockRef,
            zx_isProcessingRef, zx_scannerControlsRef, zx_running, zx_start,
            zx_stopCalls, zx_reported>>
scVars == <<sc_isScanning, sc_lastScannedCode, sc_rIsScanning, sc_rLastScannedCode,
            sc_hasPermission>>
scannerVars == <<sharedVars, h5Vars, zxVars, scVars>>
camVars == <<cam_devices, cam_throws, cam_failure, cam_selected, cam_kind>>
dbVars == <<db_products, db_categories, db_rls, db_caller, db_error, db_result,
            db_revalidated, db_deleting>>
r2Vars == <<r2_caller, r2_urlGiven, r2_key, r2_file, r2_objects, r2_op, r2_calls,
            r2_success>>
histVars == <<hist_rows, hist_now, hist_caller, hist_op, hist_result, hist_threw,
              hist_given>>
uiVars == <<pg_showCreateMenu, pg_showAddProductForm, pg_showBarcodeScanner,
            pg_scannedCode, pg_late, pg_origin, pg_handedOff,
            iu_url, iu_preview, iu_removes, iu_deleting, iu_result,
            crop_rotation, crop_normalized, crop_area, crop_bounds, crop_applied,
            crop_op>>
cropVars == <<crop_rotation, crop_normalized, crop_area, crop_bounds, crop_applied,
              crop_op>>
pgVars == <<pg_showCreateMenu, pg_showAddProductForm, pg_showBarcodeScanner,
            pg_scannedCode, pg_late, pg_origin, pg_handedOff>>
iuVars == <<iu_url, iu_preview, iu_removes, iu_deleting, iu_result>>
auxVars == <<camVars, dbVars, r2Vars, histVars, uiVars>>
\* Everything but the variables of one part.
notCamVars == <<scannerVars, dbVars, r2Vars, histVars, uiVars>>
notDbVars == <<scannerVars, camVars, r2Vars, histVars, uiVars>>
notR2Vars == <<scannerVars, camVars, dbVars, histVars, uiVars>>
notHistVars == <<scannerVars, camVars, dbVars, r2Vars, uiVars>>
notUiVars == <<scannerVars, camVars, dbVars, r2Vars, histVars>>
vars == <<scannerVars, auxVars>>

\* ------------------------------------------------------------- helpers
Min(a, b) == IF a < b THEN a ELSE b

\* Elapsed time `e` after `d` more ms, saturated at `cap`.
Aged(e, d, cap) == Min(e + d, cap)

\* An unused scan record.
FreeScan ==
    [code |-> NoCode, pc |-> "free", lk |-> "pending", incs |-> 0,
     before |-> 0, others |-> 0, after |-> 0, nf |-> 0, su |-> 0]

\* A new scan record: the call is awaiting its lookup.
NewScan(c) == [FreeScan EXCEPT !.code = c, !.pc = "lookup"]

\* The scans whose handleBarcodeScanned / handleScan call has not resolved.
InFlight == {i \in 1..MaxScans : scans[i].pc \in {"lookup", "increment"}}

\* The records that a new scan may take.
Reusable == {i \in 1..MaxScans : scans[i].pc = "free"}

\* The records sc once the timers tm are the pending ones: the record of a
\* resolved call goes when no timer of that scan is left.
Release(sc, tm) ==
    [i \in 1..MaxScans |->
        IF sc[i].pc = "done" /\ \A t \in tm : t.id # i THEN FreeScan ELSE sc[i]]

NextSlot == CHOOSE i \in Reusable : \A j \in Reusable : i <= j

\* What the remote lookup (findProductByBarcode / findProductByCode) can answer
\* for code c: { error }, { data: product }, { data: null }, or a rejection.
LookupOutcomes(c) ==
    {"error", "throw"} \cup (IF c \in ProductCodes THEN {"found"} ELSE {"none"})

\* What incrementProductStock can answer.
IncrementOutcomes == {"ok", "error", "throw"}

\* How a scan ends when its lookup did not answer with a product.
LookupEnd(out) ==
    CASE out = "error" -> "lookuperr"
      [] out = "throw" -> "thrown"
      [] OTHER         -> "notfound"

\* How a scan ends after its increment call.
IncrementEnd(out) ==
    CASE out = "ok"    -> "ok"
      [] out = "error" -> "updateerr"
      [] OTHER         -> "thrown"

\* The bookkeeping of an accepted scan.
Accepted(c) ==
    /\ scans' = [scans EXCEPT ![NextSlot] = NewScan(c)]
    /\ presented' = TRUE
    /\ sinceAccept' = 0
    /\ lastOutcome' = "none"

\* A rejected decode callback returns without a trace.
Rejected ==
    UNCHANGED <<scans, presented, sinceAccept, lastOutcome>>

\* ------------------------------------------------------------- the clock
TimersDue == {t \in timers : t.left = 0}

\* The time the clock may advance by: one grain, or less when a timer is due sooner.
Step ==
    LET lefts == {t.left : t \in timers}
        next == IF lefts = {} THEN TickMs
                ELSE CHOOSE m \in lefts : \A n \in lefts : m <= n
    IN  Min(TickMs, next)

\* Time passes: Date.now() grows and every pending setTimeout gets closer.  A due
\* timer runs before the clock moves on.
Tick ==
    /\ TimersDue = {}
    /\ timers' = {[t EXCEPT !.left = t.left - Step] : t \in timers}
    /\ h5_lastScanAge' = Aged(h5_lastScanAge, Step, H5_COOLDOWN_MS)
    /\ zx_lastScanAge' = Aged(zx_lastScanAge, Step, SCAN_COOLDOWN_MS)
    /\ sinceAccept' = IF component = "zx"
                      THEN Aged(sinceAccept, Step, SCAN_COOLDOWN_MS)
                      ELSE sinceAccept
    /\ UNCHANGED <<component, mounted, frame, scans, presented,
                   lastOutcome, h5_isProcessingRef, h5_scanCountRef, h5_camera,
                   h5_closing, h5_revalidated, h5_lastAccepted, h5_stopCalls, zx_stopCalls, zx_reported,
                   zx_isScannerActive, zx_isProcessing, zx_notification,
                   zx_errorType, zx_isScannerReady, zx_lastScannedRef, zx_scanLockRef,
                   zx_isProcessingRef, zx_scannerControlsRef, zx_running, zx_start,
                   scVars, auxVars>>

\* The user moves another barcode (or none) in front of the camera.
SetFrame(c) ==
    /\ c # frame
    /\ frame' = c
    /\ presented' = FALSE
    /\ UNCHANGED <<component, mounted, scans, timers, sinceAccept,
                   lastOutcome, h5Vars, zxVars, scVars, auxVars>>

\* Another scan session of the same user increments the product between the
\* lookup and the increment of a scan of BarcodeScannerModal (the component that
\* records the stock it read).
OtherSessionIncrement ==
    /\ component = "h5"
    /\ \E i \in InFlight :
           /\ scans[i].pc = "increment"
           /\ scans[i].others = 0
           /\ scans' = [scans EXCEPT ![i].others = 1]
    /\ UNCHANGED <<component, mounted, frame, timers, presented,
                   sinceAccept, lastOutcome, h5Vars, zxVars, scVars, auxVars>>

\* ------------------------------------------- BarcodeScannerModal (html5-qrcode)
\* html5QrCodeRef.current is set once the dynamic import has resolved.
H5_refSet == h5_camera # "importing"

\* html5QrCode.stop(): a running camera begins to stop (the promise resolves
\* later) and no new frame is decoded, but the decode of the frame in progress
\* may still deliver its result; on a scanner that is not running the call
\* fails and changes nothing.
H5_stop(cam) == IF cam = "running" THEN "stopping" ELSE cam

\* The camera after it has delivered a decode result.
H5_delivered(cam) == IF cam = "stopping" THEN "stopping_idle" ELSE cam

\* initScanner after `await import('html5-qrcode')`.
H5_initImported ==
    /\ component = "h5"
    /\ h5_camera = "importing"
    /\ h5_camera' = IF mounted THEN "starting" ELSE "stopped"
    /\ UNCHANGED <<sharedVars, h5_isProcessingRef, h5_lastScanAge, h5_scanCountRef,
                   h5_closing, h5_revalidated, h5_lastAccepted, h5_stopCalls, zxVars, scVars, auxVars>>

\* initScanner after `await html5QrCode.start(...)`: the camera runs, or the
\* start was rejected (logged only).
H5_startDone(ok) ==
    /\ component = "h5"
    /\ h5_camera = "starting"
    /\ h5_camera' = IF ok THEN "running" ELSE "failed"
    /\ h5_stopCalls' = IF ok THEN 0 ELSE h5_stopCalls
    /\ UNCHANGED <<sharedVars, h5_isProcessingRef, h5_lastScanAge, h5_scanCountRef,
                   h5_closing, h5_revalidated, h5_lastAccepted, zxVars, scVars, auxVars>>

\* Whether qrCodeSuccessCallback lets a decoded text through.
H5_accepts == ~h5_isProcessingRef /\ ~(h5_lastScanAge < H5_COOLDOWN_MS)

\* qrCodeSuccessCallback(decodedText) up to the first await of
\* handleBarcodeScanned (the findProductByBarcode call is issued).
H5_qrCodeSuccessCallback(c) ==
    /\ component = "h5"
    /\ h5_camera \in {"running", "stopping"}
    /\ frame = c
    /\ IF H5_accepts
       THEN /\ Reusable # {}
            /\ h5_lastScanAge' = 0
            /\ h5_isProcessingRef' = TRUE
            /\ h5_scanCountRef' = Min(h5_scanCountRef + 1, MaxCount)
            /\ h5_lastAccepted' = c
            /\ Accepted(c)
       ELSE /\ Rejected
            /\ UNCHANGED <<h5_lastScanAge, h5_isProcessingRef, h5_scanCountRef,
                           h5_lastAccepted>>
    /\ h5_camera' = H5_delivered(h5_camera)
    /\ UNCHANGED <<component, mounted, frame, timers, h5_closing, h5_revalidated, h5_stopCalls,
                   zxVars, scVars, auxVars>>

\* The timers a finished handleBarcodeScanned leaves behind: the not-found
\* handoff (set inside it) and the re-arm of the callback that awaited it.
H5_timersAfter(i, res) ==
    (IF res = "notfound"
     THEN {[kind |-> "h5_notfound", left |-> H5_NOTFOUND_MS, id |-> i]}
     ELSE {})
    \cup {[kind |-> "h5_rearm", left |-> H5_REARM_MS, id |-> i]}

\* A test that only looks at `findResult.error`.
H5_productFound_noError(out) == out # "error"

\* `if (findResult.data)`: the lookup answered with a product.
H5_productFound(out) == out = "found"

\* handleBarcodeScanned after `await findProductByBarcode(barcode)`; quantity
\* is the stock_quantity of the product row it answered with.
H5_lookupDone(i, out, quantity) ==
    /\ component = "h5"
    /\ i \in InFlight
    /\ scans[i].pc = "lookup"
    /\ out \in LookupOutcomes(scans[i].code)
    /\ out = "found" \/ quantity = 0
    /\ IF out # "error" /\ out # "throw" /\ H5_productFound(out)
       THEN /\ scans' = [scans EXCEPT ![i].pc = "increment", ![i].lk = out,
                                      ![i].before = quantity, ![i].incs = @ + 1]
            /\ UNCHANGED <<timers, lastOutcome>>
       ELSE /\ scans' = [scans EXCEPT ![i].pc = "done", ![i].lk = out]
            /\ timers' = timers \cup H5_timersAfter(i, LookupEnd(out))
            /\ lastOutcome' = LookupEnd(out)
    /\ UNCHANGED <<component, mounted, frame, presented,
                   sinceAccept, h5Vars, zxVars, scVars, auxVars>>

\* The stockAfter of the history entry:
\* `updateResult.data?.stock_quantity || stockBefore + 1`.
H5_stockAfter(returned, before) == IF returned # 0 THEN returned ELSE before + 1

\* handleBarcodeScanned after `await incrementProductStock(id)`: the row it
\* answers with has the stock of that moment plus one.
H5_incrementDone(i, out) ==
    /\ component = "h5"
    /\ i \in InFlight
    /\ scans[i].pc = "increment"
    /\ out \in IncrementOutcomes
    /\ IF out = "ok"
       THEN scans' = [scans EXCEPT
                ![i].pc = "done",
                ![i].after = H5_stockAfter(scans[i].before + scans[i].others + 1,
                                           scans[i].before),
                ![i].su = @ + 1]
       ELSE scans' = [scans EXCEPT ![i].pc = "done"]
    /\ timers' = timers \cup H5_timersAfter(i, IncrementEnd(out))
    /\ lastOutcome' = IncrementEnd(out)
    /\ UNCHANGED <<component, mounted, frame, presented, sinceAccept,
                   h5Vars, zxVars, scVars, auxVars>>

\* The 800 ms timer of qrCodeSuccessCallback: `isProcessingRef.current = false`.
H5_rearm(t) ==
    /\ t \in TimersDue
    /\ t.kind = "h5_rearm"
    /\ \A u \in timers : ~(u.kind = "h5_notfound" /\ u.id = t.id)
    /\ timers' = timers \ {t}
    /\ scans' = Release(scans, timers \ {t})
    /\ h5_isProcessingRef' = FALSE
    /\ UNCHANGED <<component, mounted, frame, presented,
                   sinceAccept, lastOutcome, h5_lastScanAge, h5_scanCountRef,
                   h5_camera, h5_closing, h5_revalidated, h5_lastAccepted, h5_stopCalls, zxVars, scVars, auxVars>>

\* A due not-found timer of the given kind: `onProductNotFound(barcode)`.
OnProductNotFoundTimer(t, kind) ==
    /\ t \in TimersDue
    /\ t.kind = kind
    /\ timers' = timers \ {t}
    /\ scans' = Release([scans EXCEPT ![t.id].nf = @ + 1], timers \ {t})
    /\ UNCHANGED <<component, mounted, frame, presented,
                   sinceAccept, lastOutcome, h5Vars, zxVars, scVars, auxVars>>

\* The cleanup of the mount effect: the refs are reset and stop() is called
\* when the scanner object exists.
H5_cleanup ==
    /\ h5_isProcessingRef' = FALSE
    /\ h5_lastScanAge' = H5_COOLDOWN_MS
    /\ h5_scanCountRef' = 0
    /\ h5_camera' = IF H5_refSet THEN H5_stop(h5_camera) ELSE h5_camera
    /\ h5_stopCalls' = IF H5_refSet THEN Min(h5_stopCalls + 1, MaxCount) ELSE h5_stopCalls

\* handleClose: the refs are reset, then stop() is called when the scanner
\* object exists and onClose follows its promise; without the object onClose
\* follows at once and the parent unmounts the modal.  On a scanner that is not
\* running stop() fails: by a rejected promise (onClose still runs) or by
\* throwing (handleClose ends there); `rejects` says which.  revalidateInventory
\* is called when scanCountRef.current, as it is after the reset, is above 0.
H5_handleClose(rejects) ==
    /\ component = "h5"
    /\ mounted
    /\ rejects \/ (H5_refSet /\ h5_camera # "running")
    /\ h5_isProcessingRef' = FALSE
    /\ h5_lastScanAge' = H5_COOLDOWN_MS
    /\ h5_scanCountRef' = 0
    /\ h5_revalidated' = (h5_scanCountRef' > 0)
    /\ h5_stopCalls' = IF H5_refSet THEN Min(h5_stopCalls + 1, MaxCount) ELSE h5_stopCalls
    /\ CASE ~H5_refSet ->
              /\ mounted' = FALSE
              /\ UNCHANGED <<h5_camera, h5_closing>>
         [] h5_camera = "running" ->
              /\ h5_camera' = H5_stop(h5_camera)
              /\ h5_closing' = TRUE
              /\ UNCHANGED mounted
         [] OTHER ->
              /\ mounted' = IF rejects THEN FALSE ELSE mounted
              /\ UNCHANGED <<h5_camera, h5_closing>>
    /\ lastOutcome' = "none"
    /\ UNCHANGED <<component, frame, scans, timers, presented,
                   sinceAccept, h5_lastAccepted, zxVars, scVars, auxVars>>

\* The camera has stopped.  After handleClose this resolves stop(), onClose()
\* runs and the parent unmounts the modal (the cleanup runs).
H5_stopDone ==
    /\ component = "h5"
    /\ h5_camera \in {"stopping", "stopping_idle"}
    /\ h5_camera' = "stopped"
    /\ IF h5_closing /\ mounted
       THEN /\ mounted' = FALSE
            /\ h5_isProcessingRef' = FALSE
            /\ h5_lastScanAge' = H5_COOLDOWN_MS
            /\ h5_scanCountRef' = 0
            /\ h5_stopCalls' = Min(h5_stopCalls + 1, MaxCount)
       ELSE UNCHANGED <<mounted, h5_isProcessingRef, h5_lastScanAge, h5_scanCountRef,
                        h5_stopCalls>>
    /\ UNCHANGED <<component, frame, scans, timers, presented,
                   sinceAccept, lastOutcome, h5_closing, h5_revalidated, h5_lastAccepted, zxVars, scVars, auxVars>>

\* The parent unmounts the modal (for instance after a handoff): the cleanup runs.
H5_unmount ==
    /\ component = "h5"
    /\ mounted
    /\ mounted' = FALSE
    /\ H5_cleanup
    /\ lastOutcome' = "none"
    /\ UNCHANGED <<component, frame, scans, timers, presented,
                   sinceAccept, h5_closing, h5_revalidated, h5_lastAccepted, zxVars, scVars, auxVars>>

H5Next ==
    \/ OtherSessionIncrement
    \/ H5_initImported
    \/ \E ok \in BOOLEAN : H5_startDone(ok)
    \/ \E c \in Codes : H5_qrCodeSuccessCallback(c)
    \/ \E i \in 1..MaxScans, out \in {"found", "none", "error", "throw"}, quantity \in 0..MaxStock :
           H5_lookupDone(i, out, quantity)
    \/ \E i \in 1..MaxScans, out \in IncrementOutcomes : H5_incrementDone(i, out)
    \/ \E t \in timers : H5_rearm(t)
    \/ \E t \in timers : OnProductNotFoundTimer(t, "h5_notfound")
    \/ \E rejects \in BOOLEAN : H5_handleClose(rejects)
    \/ H5_stopDone
    \/ H5_unmount

\* ------------------------------------------------ BarcodeScannerModalZXing
\* The state and refs of the component as one value, so that a handler's
\* updates and the [isScannerActive] effect that follows them compose.
ZX_cur ==
    [active |-> zx_isScannerActive, processing |-> zx_isProcessing,
     notification |-> zx_notification, errorType |-> zx_errorType,
     ready |-> zx_isScannerReady, lastScanned |-> zx_lastScannedRef,
     age |-> zx_lastScanAge, lock |-> zx_scanLockRef, procRef |-> zx_isProcessingRef,
     controls |-> zx_scannerControlsRef, running |-> zx_running, start |-> zx_start,
     stops |-> zx_stopCalls, reported |-> zx_reported]

ZX_set(s) ==
    /\ zx_isScannerActive' = s.active
    /\ zx_isProcessing' = s.processing
    /\ zx_notification' = s.notification
    /\ zx_errorType' = s.errorType
    /\ zx_isScannerReady' = s.ready
    /\ zx_lastScannedRef' = s.lastScanned
    /\ zx_lastScanAge' = s.age
    /\ zx_scanLockRef' = s.lock
    /\ zx_isProcessingRef' = s.procRef
    /\ zx_scannerControlsRef' = s.controls
    /\ zx_running' = s.running
    /\ zx_start' = s.start
    /\ zx_stopCalls' = s.stops
    /\ zx_reported' = s.reported

\* handleError(message, type).
ZX_handleError(s, type) ==
    [s EXCEPT !.errorType = type, !.processing = FALSE, !.procRef = FALSE,
              !.lock = FALSE, !.reported = type]

\* A stopScanner() that leaves the camera decoding.
ZX_stopScanner_keepsDecoding(s) == s

\* stopScanner(): stops the controls held by scannerControlsRef, if any.
ZX_stopScanner(s) ==
    IF s.controls
    THEN [s EXCEPT !.controls = FALSE, !.running = @ - 1,
                   !.stops = Min(@ + 1, MaxCount)]
    ELSE s

\* startScanner() up to `await selectBestCamera()`.
ZX_startScanner(s) ==
    LET t == ZX_stopScanner([s EXCEPT !.errorType = "none", !.ready = FALSE])
    IN  [t EXCEPT !.start.select = @ + 1]

\* The cleanup of the [isScannerActive] effect.
ZX_cleanup(s) ==
    [ZX_stopScanner(s) EXCEPT !.lastScanned = NoCode, !.age = SCAN_COOLDOWN_MS,
                              !.lock = FALSE, !.procRef = FALSE]

\* The [isScannerActive] effect after a handler left the state s: it runs when
\* the component is mounted and isScannerActive changed.
ZX_effect(s, wasActive) ==
    IF mounted /\ s.active # wasActive
    THEN IF s.active THEN ZX_startScanner(ZX_cleanup(s))
                     ELSE ZX_stopScanner(ZX_cleanup(s))
    ELSE s

\* The <video> element is rendered (videoRef.current is set).
ZX_videoRendered(s) == mounted /\ s.active /\ ~s.processing /\ ~s.notification

\* startScanner after `await selectBestCamera()`.
ZX_selectDone(device) ==
    /\ component = "zx"
    /\ zx_start.select > 0
    /\ LET s == [ZX_cur EXCEPT !.start.select = @ - 1]
       IN  ZX_set(IF ~device \/ ~ZX_videoRendered(s)
                  THEN ZX_handleError(s, "camera")
                  ELSE [s EXCEPT !.start.decode = @ + 1])
    /\ UNCHANGED <<sharedVars, h5Vars, scVars, auxVars>>

\* The ways the camera can fail to start.
CameraStartFailures ==
    {"no_camera", "permission_denied", "camera_in_use", "insecure_context"}

\* The exception decodeFromVideoDevice rejects with, as far as the catch of
\* startScanner reads it: err.name and the words err.message contains.
ZX_startError(f) ==
    CASE f = "permission_denied" -> [name |-> "NotAllowedError", message |-> {"Permission"}]
      [] f = "no_camera"         -> [name |-> "NotFoundError", message |-> {}]
      [] f = "camera_in_use"     -> [name |-> "NotReadableError", message |-> {}]
      [] f = "insecure_context"  -> [name |-> "Error", message |-> {"secure"}]
      [] OTHER                   -> [name |-> "Error", message |-> {}]

\* The catch of startScanner: the error kind it hands to handleError.
ZX_catchKind(err) ==
    IF err.name = "NotAllowedError" \/ "Permission" \in err.message
    THEN "permission"
    ELSE IF err.name = "NotFoundError" \/ "NotFoundError" \in err.message
    THEN "camera"
    ELSE IF err.name = "NotReadableError" \/ "NotReadableError" \in err.message
    THEN "camera"
    ELSE IF "SSL" \in err.message \/ "secure" \in err.message
    THEN "camera"
    ELSE "camera"

\* startScanner after `await codeReader.decodeFromVideoDevice(...)`: the
\* controls are stored, or the catch classifies the failure.
ZX_decodeStarted(out) ==
    /\ component = "zx"
    /\ zx_start.decode > 0
    /\ LET s == [ZX_cur EXCEPT !.start.decode = @ - 1]
       IN  ZX_set(IF out = "ok"
                  THEN [s EXCEPT !.controls = TRUE, !.running = @ + 1, !.ready = TRUE,
                                 !.stops = 0]
                  ELSE ZX_handleError([s EXCEPT !.ready = FALSE], out))
    /\ UNCHANGED <<sharedVars, h5Vars, scVars, auxVars>>

\* Whether the decode callback lets a decoded text through.
ZX_accepts(c) ==
    LET isDuplicate == c = zx_lastScannedRef /\ zx_lastScanAge < SCAN_COOLDOWN_MS
    IN  ~zx_scanLockRef /\ ~zx_isProcessingRef /\ ~isDuplicate

\* The decode callback of decodeFromVideoDevice with a result, and the part of
\* handleBarcodeScanned before `await findProductByBarcode(barcode)`.
ZX_decodeCallback(c) ==
    /\ component = "zx"
    /\ zx_running > 0
    /\ frame = c
    /\ IF ZX_accepts(c)
       THEN /\ Reusable # {}
            /\ Accepted(c)
            /\ ZX_set(ZX_effect([ZX_cur EXCEPT !.lock = TRUE, !.procRef = TRUE,
                                               !.age = 0, !.lastScanned = c,
                                               !.active = FALSE, !.processing = TRUE,
                                               !.reported = "none"],
                                zx_isScannerActive))
       ELSE /\ Rejected
            /\ UNCHANGED zxVars
    /\ UNCHANGED <<component, mounted, frame, timers, h5Vars, scVars, auxVars>>

\* `if (result.data)`: the lookup answered with a product.
ZX_productFound(out) == out = "found"

\* handleBarcodeScanned after `await findProductByBarcode(barcode)`.
ZX_lookupDone(i, out, net) ==
    /\ component = "zx"
    /\ i \in InFlight
    /\ scans[i].pc = "lookup"
    /\ out \in LookupOutcomes(scans[i].code)
    /\ out = "throw" \/ net
    /\ CASE out = "error" ->
              /\ scans' = Release([scans EXCEPT ![i].pc = "done", ![i].lk = out], timers)
              /\ UNCHANGED timers
              /\ ZX_set(ZX_effect([ZX_handleError(ZX_cur, "network") EXCEPT !.active = TRUE],
                                  zx_isScannerActive))
         [] out = "throw" ->
              /\ scans' = Release([scans EXCEPT ![i].pc = "done", ![i].lk = out], timers)
              /\ UNCHANGED timers
              /\ ZX_set(ZX_effect([ZX_handleError(ZX_cur, IF net THEN "network" ELSE "processing")
                                      EXCEPT !.active = TRUE, !.processing = FALSE],
                                  zx_isScannerActive))
         [] ZX_productFound(out) ->
              /\ scans' = [scans EXCEPT ![i].pc = "increment", ![i].lk = out,
                                        ![i].incs = @ + 1]
              /\ UNCHANGED <<timers, zxVars>>
         [] OTHER ->
              /\ scans' = [scans EXCEPT ![i].pc = "done", ![i].lk = out]
              /\ timers' = timers \cup
                     {[kind |-> "zx_notfound", left |-> ZX_NOTFOUND_MS, id |-> i]}
              /\ ZX_set([ZX_stopScanner([ZX_cur EXCEPT !.procRef = FALSE, !.lock = FALSE,
                                                       !.lastScanned = NoCode])
                            EXCEPT !.processing = FALSE])
    /\ lastOutcome' = IF scans'[i].pc = "increment" THEN lastOutcome ELSE LookupEnd(out)
    /\ UNCHANGED <<component, mounted, frame, presented,
                   sinceAccept, h5Vars, scVars, auxVars>>

\* handleBarcodeScanned after `await incrementProductStock(result.data.id)`.
ZX_incrementDone(i, out, net) ==
    /\ component = "zx"
    /\ i \in InFlight
    /\ scans[i].pc = "increment"
    /\ out \in IncrementOutcomes
    /\ out = "throw" \/ net
    /\ CASE out = "ok" ->
              /\ scans' = [scans EXCEPT ![i].pc = "done", ![i].su = @ + 1]
              /\ timers' = timers \cup
                     {[kind |-> "zx_resume", left |-> ZX_RESUME_MS, id |-> i]}
              /\ ZX_set([ZX_cur EXCEPT !.notification = TRUE, !.processing = FALSE])
         [] out = "error" ->
              /\ scans' = [scans EXCEPT ![i].pc = "done"]
              /\ UNCHANGED timers
              /\ ZX_set(ZX_effect([ZX_handleError(ZX_cur, "processing")
                                      EXCEPT !.active = TRUE, !.processing = FALSE],
                                  zx_isScannerActive))
         [] OTHER ->
              /\ scans' = [scans EXCEPT ![i].pc = "done"]
              /\ UNCHANGED timers
              /\ ZX_set(ZX_effect([ZX_handleError(ZX_cur, IF net THEN "network" ELSE "processing")
                                      EXCEPT !.active = TRUE, !.processing = FALSE],
                                  zx_isScannerActive))
    /\ lastOutcome' = IncrementEnd(out)
    /\ UNCHANGED <<component, mounted, frame, presented, sinceAccept,
                   h5Vars, scVars, auxVars>>

\* The auto-resume timer of a successful scan.
ZX_resume(t) ==
    /\ t \in TimersDue
    /\ t.kind = "zx_resume"
    /\ timers' = timers \ {t}
    /\ scans' = Release(scans, timers \ {t})
    /\ ZX_set(ZX_effect([ZX_cur EXCEPT !.notification = FALSE, !.lastScanned = NoCode,
                                       !.lock = FALSE, !.procRef = FALSE, !.active = TRUE],
                        zx_isScannerActive))
    /\ UNCHANGED <<component, mounted, frame, presented,
                   sinceAccept, lastOutcome, h5Vars, scVars, auxVars>>

\* toggleScanner: a click on the scan frame pauses an active, ready scanner.
ZX_toggleScanner ==
    /\ component = "zx"
    /\ mounted
    /\ zx_errorType = "none"
    /\ zx_isScannerReady /\ zx_isScannerActive /\ ~zx_isProcessing /\ ~zx_notification
    /\ ZX_set(ZX_effect([ZX_cur EXCEPT !.active = FALSE], zx_isScannerActive))
    /\ lastOutcome' = "none"
    /\ UNCHANGED <<component, mounted, frame, scans, timers, presented,
                   sinceAccept, h5Vars, scVars, auxVars>>

\* "TAP TO SCAN": shown when the scanner is paused, ready and idle.
ZX_tapToScan ==
    /\ component = "zx"
    /\ mounted
    /\ zx_errorType = "none"
    /\ ~(zx_isProcessing \/ zx_notification) /\ ~zx_isScannerActive /\ zx_isScannerReady
    /\ ZX_set(ZX_effect([ZX_cur EXCEPT !.active = TRUE], zx_isScannerActive))
    /\ lastOutcome' = "none"
    /\ UNCHANGED <<component, mounted, frame, scans, timers, presented,
                   sinceAccept, h5Vars, scVars, auxVars>>

\* The Reintentar button of the error modal.
ZX_retry ==
    /\ component = "zx"
    /\ mounted
    /\ zx_errorType # "none"
    /\ ZX_set(ZX_effect([ZX_cur EXCEPT !.errorType = "none", !.processing = FALSE,
                                       !.lastScanned = NoCode, !.lock = FALSE,
                                       !.procRef = FALSE, !.active = TRUE],
                        zx_isScannerActive))
    /\ lastOutcome' = "none"
    /\ UNCHANGED <<component, mounted, frame, scans, timers, presented,
                   sinceAccept, h5Vars, scVars, auxVars>>

\* The component is unmounted: handleClose (stopScanner, then onClose and the
\* parent unmounts the modal) or the parent alone; the effect's cleanup runs.
ZX_unmount ==
    /\ component = "zx"
    /\ mounted
    /\ mounted' = FALSE
    /\ ZX_set(ZX_cleanup(ZX_cur))
    /\ lastOutcome' = "none"
    /\ UNCHANGED <<component, frame, scans, timers, presented,
                   sinceAccept, h5Vars, scVars, auxVars>>

ZXNext ==
    \/ \E device \in BOOLEAN : ZX_selectDone(device)
    \/ ZX_decodeStarted("ok")
    \/ \E f \in CameraStartFailures \cup {"unknown"} :
           ZX_decodeStarted(ZX_catchKind(ZX_startError(f)))
    \/ \E c \in Codes : ZX_decodeCallback(c)
    \/ \E i \in 1..MaxScans, out \in {"found", "none", "error", "throw"}, net \in BOOLEAN :
           ZX_lookupDone(i, out, net)
    \/ \E i \in 1..MaxScans, out \in IncrementOutcomes, net \in BOOLEAN :
           ZX_incrementDone(i, out, net)
    \/ \E t \in timers : ZX_resume(t)
    \/ \E t \in timers : OnProductNotFoundTimer(t, "zx_notfound")
    \/ ZX_toggleScanner
    \/ ZX_tapToScan
    \/ ZX_retry
    \/ ZX_unmount

\* ---------------------------------------------------- BarcodeScannerScreen
\* checkPermissions after `await getUserMedia(...)`.
SC_checkPermissions(granted) ==
    /\ component = "screen"
    /\ sc_hasPermission = "pending"
    /\ sc_hasPermission' = IF granted THEN "granted" ELSE "denied"
    /\ UNCHANGED <<sharedVars, h5Vars, zxVars, auxVars, sc_isScanning, sc_lastScannedCode,
                   sc_rIsScanning, sc_rLastScannedCode>>

\* React renders the component again: the handleScan closure handed to useZxing
\* now holds the current isScanning and lastScannedCode.
SC_render ==
    /\ component = "screen"
    /\ mounted
    /\ <<sc_rIsScanning, sc_rLastScannedCode>> # <<sc_isScanning, sc_lastScannedCode>>
    /\ sc_rIsScanning' = sc_isScanning
    /\ sc_rLastScannedCode' = sc_lastScannedCode
    /\ UNCHANGED <<sharedVars, h5Vars, zxVars, auxVars, sc_isScanning, sc_lastScannedCode,
                   sc_hasPermission>>

\* Whether handleScan (the closure of the latest render) lets a code through.
SC_accepts(c) == sc_rIsScanning /\ c # sc_rLastScannedCode

\* onDecodeResult -> handleScan(result) up to `await findProductByCode(code)`.
SC_handleScan(c) ==
    /\ component = "screen"
    /\ mounted
    /\ sc_hasPermission = "granted"
    /\ frame = c
    /\ IF SC_accepts(c)
       THEN /\ Reusable # {}
            /\ Accepted(c)
            /\ sc_lastScannedCode' = c
            /\ sc_isScanning' = FALSE
       ELSE /\ Rejected
            /\ UNCHANGED <<sc_lastScannedCode, sc_isScanning>>
    /\ UNCHANGED <<component, mounted, frame, timers, h5Vars, zxVars, auxVars,
                   sc_rIsScanning, sc_rLastScannedCode, sc_hasPermission>>

\* Failure branches that forget `setIsScanning(true)`.
SC_failed_noRearm(i) ==
    /\ timers' = timers \cup {[kind |-> "sc_memo", left |-> SC_MEMO_RESET_MS, id |-> i]}
    /\ UNCHANGED <<sc_isScanning, sc_lastScannedCode>>

\* The failure branches of handleScan: scanning is on again at once and the
\* memo of the last code is dropped a second later.
SC_failed(i) ==
    /\ sc_isScanning' = TRUE
    /\ timers' = timers \cup {[kind |-> "sc_memo", left |-> SC_MEMO_RESET_MS, id |-> i]}
    /\ UNCHANGED sc_lastScannedCode

\* `if (!product)` did not return: the lookup answered with a product.
SC_productFound(out) == out = "found"

\* handleScan after `await findProductByCode(code)`.
SC_lookupDone(i, out) ==
    /\ component = "screen"
    /\ i \in InFlight
    /\ scans[i].pc = "lookup"
    /\ out \in LookupOutcomes(scans[i].code)
    /\ CASE out \in {"error", "throw"} ->
              /\ scans' = [scans EXCEPT ![i].pc = "done", ![i].lk = out]
              /\ SC_failed(i)
         [] SC_productFound(out) ->
              /\ scans' = [scans EXCEPT ![i].pc = "increment", ![i].lk = out,
                                        ![i].incs = @ + 1]
              /\ UNCHANGED <<timers, sc_isScanning, sc_lastScannedCode>>
         [] OTHER ->
              /\ scans' = Release([scans EXCEPT ![i].pc = "done", ![i].lk = out,
                                                ![i].nf = @ + 1], timers)
              /\ UNCHANGED <<timers, sc_isScanning, sc_lastScannedCode>>
    /\ lastOutcome' = IF scans'[i].pc = "increment" THEN lastOutcome ELSE LookupEnd(out)
    /\ UNCHANGED <<component, mounted, frame, presented,
                   sinceAccept, h5Vars, zxVars, auxVars, sc_rIsScanning, sc_rLastScannedCode,
                   sc_hasPermission>>

\* handleScan after `await incrementProductStock(product.id)`.
SC_incrementDone(i, out) ==
    /\ component = "screen"
    /\ i \in InFlight
    /\ scans[i].pc = "increment"
    /\ out \in IncrementOutcomes
    /\ IF out = "ok"
       THEN /\ scans' = [scans EXCEPT ![i].pc = "done"]
            /\ timers' = timers \cup {[kind |-> "sc_rearm", left |-> SC_REARM_MS, id |-> i]}
            /\ UNCHANGED <<sc_isScanning, sc_lastScannedCode>>
       ELSE /\ scans' = [scans EXCEPT ![i].pc = "done"]
            /\ SC_failed(i)
    /\ lastOutcome' = IncrementEnd(out)
    /\ UNCHANGED <<component, mounted, frame, presented, sinceAccept,
                   h5Vars, zxVars, auxVars, sc_rIsScanning, sc_rLastScannedCode,
                   sc_hasPermission>>

\* The timers of handleScan: `setLastScannedCode(null)` a second after a
\* failure; the same and `setIsScanning(true)` 800 ms after a success.
SC_timer(t) ==
    /\ t \in TimersDue
    /\ t.kind \in {"sc_memo", "sc_rearm"}
    /\ timers' = timers \ {t}
    /\ scans' = Release(scans, timers \ {t})
    /\ sc_lastScannedCode' = NoCode
    /\ sc_isScanning' = IF t.kind = "sc_rearm" THEN TRUE ELSE sc_isScanning
    /\ UNCHANGED <<component, mounted, frame, presented,
                   sinceAccept, lastOutcome, h5Vars, zxVars, auxVars, sc_rIsScanning,
                   sc_rLastScannedCode, sc_hasPermission>>

\* onClose, or the parent hiding the screen after a handoff: useZxing stops.
SC_unmount ==
    /\ component = "screen"
    /\ mounted
    /\ mounted' = FALSE
    /\ lastOutcome' = "none"
    /\ UNCHANGED <<component, frame, scans, timers, presented,
                   sinceAccept, h5Vars, zxVars, scVars, auxVars>>

SCNext ==
    \/ \E granted \in BOOLEAN : SC_checkPermissions(granted)
    \/ SC_render
    \/ \E c \in Codes : SC_handleScan(c)
    \/ \E i \in 1..MaxScans, out \in {"found", "none", "error", "throw"} : SC_lookupDone(i, out)
    \/ \E i \in 1..MaxScans, out \in IncrementOutcomes : SC_incrementDone(i, out)
    \/ \E t \in timers : SC_timer(t)
    \/ SC_unmount

\* --------------------------- selectBestCamera and startScanner's catch, alone
\* A device label, as far as selectBestCamera reads it: the word it contains
\* and whether it is written in upper case.
LabelWords == {"back", "rear", "trasera", "environment", "facing back", "front"}
Labels == [word : LabelWords, upper : BOOLEAN]

\* label.toLowerCase()
CAM_toLowerCase(label) == [label EXCEPT !.upper = FALSE]

\* label.includes(text): a case-sensitive search for the lower-case text.
CAM_includes(label, text) ==
    /\ ~label.upper
    /\ label.word = text \/ (label.word = "facing back" /\ text = "back")

\* A find callback that leaves out toLowerCase().
CAM_isRear_caseSensitive(device) ==
    \/ CAM_includes(device, "back")
    \/ CAM_includes(device, "rear")
    \/ CAM_includes(device, "trasera")
    \/ CAM_includes(device, "environment")
    \/ CAM_includes(device, "facing back")

\* The callback of videoInputDevices.find(...).
CAM_isRear(device) ==
    LET label == CAM_toLowerCase(device)
    IN  \/ CAM_includes(label, "back")
        \/ CAM_includes(label, "rear")
        \/ CAM_includes(label, "trasera")
        \/ CAM_includes(label, "environment")
        \/ CAM_includes(label, "facing back")

\* Array.prototype.find from place i on: the place of the first device the
\* callback accepts, 0 for undefined.
RECURSIVE CAM_find(_, _)
CAM_find(devices, i) ==
    IF i > Len(devices) THEN 0
    ELSE IF CAM_isRear(devices[i]) THEN i
    ELSE CAM_find(devices, i + 1)

\* selectBestCamera(): the place of the chosen device in the list, 0 for null.
selectBestCamera(devices, throws) ==
    IF throws THEN 0
    ELSE IF Len(devices) = 0 THEN 0
    ELSE LET rearCamera == CAM_find(devices, 1)
         IN  IF rearCamera # 0 THEN rearCamera
             ELSE IF Len(devices) > 1 THEN Len(devices)
             ELSE 1

\* selectBestCamera runs on the listed devices.
CAM_selectBestCamera ==
    /\ cam_selected = -1
    /\ cam_selected' = selectBestCamera(cam_devices, cam_throws)
    /\ UNCHANGED <<notCamVars, cam_devices, cam_throws, cam_failure, cam_kind>>

\* The camera fails to start for the reason f and startScanner reports it.
CAM_startFails(f) ==
    /\ cam_kind = "pending"
    /\ cam_failure' = f
    /\ cam_kind' = ZX_catchKind(ZX_startError(f))
    /\ UNCHANGED <<notCamVars, cam_devices, cam_throws, cam_selected>>

\* ------------------------------- server actions on products and categories
\* The users of the application; "anon" is a session without a user.
Users == {"U", "V"}
Callers == Users \cup {"anon"}

\* `supabase.auth.getUser()` answered with a user.
Authenticated(caller) == caller \in Users

\* The rows of a table that a query of the caller with `.eq('id', id)` reaches:
\* the row of that id, when it exists and the database shows it to the caller.
DB_eqId(table, id, caller) ==
    {i \in DOMAIN table :
        /\ i = id
        /\ table[i].exists
        /\ db_rls => table[i].user_id = caller}

\* The products a query of the caller with `.eq('category_id', id)` counts.
DB_countByCategory(id, caller) ==
    Cardinality({i \in DOMAIN db_products :
                    /\ db_products[i].exists
                    /\ db_products[i].category_id = id
                    /\ db_rls => db_products[i].user_id = caller})

\* What the database answers with: no error, a unique violation, another error.
DbErrors == {"none", "23505", "other"}
\* error.message
DB_message(code) ==
    IF code = "23505" THEN "duplicate key value violates unique constraint"
    ELSE "database error"
\* `.single()` on a statement that reached no row is an error of its own.
DB_single(rows, dbError) ==
    IF dbError = "none" /\ rows = {} THEN "other" ELSE dbError

\* The `error` addProduct and updateProduct return, with the test of the code
\* left out.
DB_productError_raw(code) == DB_message(code)
\* The `error` addProduct and updateProduct return for an error of the database.
DB_productError(code) ==
    IF code = "23505"
    THEN "Ya tienes un producto con este código. Por favor usa otro código."
    ELSE DB_message(code)

\* The end of a server action: what it returns, and revalidatePath('/inventory')
\* when it succeeded.
DB_return(caller, code, error) ==
    /\ db_caller' = caller
    /\ db_error' = code
    /\ db_result' = error
    /\ db_revalidated' = (error = "success")

\* addProduct(data): the row gets a free id.
addProduct(caller, category, dbError) ==
    LET free == {i \in DOMAIN db_products : ~db_products[i].exists}
        id == CHOOSE i \in free : \A j \in free : i <= j
    IN /\ free # {}
       /\ IF ~Authenticated(caller)
          THEN /\ DB_return(caller, "none", "No autenticado")
               /\ db_products' = db_products
          ELSE IF dbError # "none"
          THEN /\ DB_return(caller, dbError, DB_productError(dbError))
               /\ db_products' = db_products
          ELSE /\ DB_return(caller, "none", "success")
               /\ db_products' = [db_products EXCEPT ![id] =
                      [user_id |-> caller, category_id |-> category, exists |-> TRUE]]
       /\ UNCHANGED <<notDbVars, db_categories, db_rls, db_deleting>>

\* updateProduct(productId, data)
updateProduct(caller, productId, category, dbError) ==
    LET rows == DB_eqId(db_products, productId, caller)
        code == DB_single(rows, dbError)
    IN /\ IF ~Authenticated(caller)
          THEN /\ DB_return(caller, "none", "No autenticado")
               /\ db_products' = db_products
          ELSE IF code # "none"
          THEN /\ DB_return(caller, code, DB_productError(code))
               /\ db_products' = db_products
          ELSE /\ DB_return(caller, "none", "success")
               /\ db_products' = [i \in DOMAIN db_products |->
                      IF i \in rows
                      THEN [db_products[i] EXCEPT !.category_id = category]
                      ELSE db_products[i]]
       /\ UNCHANGED <<notDbVars, db_categories, db_rls, db_deleting>>

\* deleteProduct(productId)
deleteProduct(caller, productId, dbError) ==
    /\ IF ~Authenticated(caller)
       THEN /\ DB_return(caller, "none", "No autenticado")
            /\ db_products' = db_products
       ELSE IF dbError # "none"
       THEN /\ DB_return(caller, dbError, DB_message(dbError))
            /\ db_products' = db_products
       ELSE /\ DB_return(caller, "none", "success")
            /\ db_products' = [i \in DOMAIN db_products |->
                   IF i \in DB_eqId(db_products, productId, caller)
                   THEN [db_products[i] EXCEPT !.exists = FALSE]
                   ELSE db_products[i]]
    /\ UNCHANGED <<notDbVars, db_categories, db_rls, db_deleting>>

\* updateCategory(categoryId, data)
updateCategory(caller, categoryId, data, dbError) ==
    LET rows == DB_eqId(db_categories, categoryId, caller)
        code == DB_single(rows, dbError)
    IN /\ IF ~Authenticated(caller)
          THEN /\ DB_return(caller, "none", "No autenticado")
               /\ db_categories' = db_categories
          ELSE IF code # "none"
          THEN /\ DB_return(caller, code, DB_message(code))
               /\ db_categories' = db_categories
          ELSE /\ DB_return(caller, "none", "success")
               /\ db_categories' = [i \in DOMAIN db_categories |->
                      IF i \in rows
                      THEN [db_categories[i] EXCEPT !.data = data]
                      ELSE db_categories[i]]
       /\ UNCHANGED <<notDbVars, db_products, db_rls, db_deleting>>

\* No deleteCategory is between its two statements.
NoDelete == [caller |-> "none", id |-> 0]

\* deleteCategory(categoryId), up to the answer of its count query: it returns
\* when nobody is signed in, the query fails or products are assigned.
deleteCategory_count(caller, categoryId, countError) ==
    /\ db_deleting = NoDelete
    /\ IF ~Authenticated(caller)
       THEN /\ DB_return(caller, "none", "No autenticado")
            /\ db_deleting' = db_deleting
       ELSE IF countError # "none"
       THEN /\ DB_return(caller, countError, DB_message(countError))
            /\ db_deleting' = db_deleting
       ELSE IF DB_countByCategory(categoryId, caller) > 0
       THEN /\ DB_return(caller, "none", "No se puede eliminar la categoría")
            /\ db_deleting' = db_deleting
       ELSE /\ db_deleting' = [caller |-> caller, id |-> categoryId]
            /\ UNCHANGED <<db_caller, db_error, db_result, db_revalidated>>
    /\ UNCHANGED <<notDbVars, db_products, db_categories, db_rls>>

\* deleteCategory(categoryId), from its delete statement on.
deleteCategory(dbError) ==
    /\ db_deleting # NoDelete
    /\ db_deleting' = NoDelete
    /\ IF dbError # "none"
       THEN /\ DB_return(db_deleting.caller, dbError, DB_message(dbError))
            /\ db_categories' = db_categories
       ELSE /\ DB_return(db_deleting.caller, "none", "success")
            /\ db_categories' = [i \in DOMAIN db_categories |->
                   IF i \in DB_eqId(db_categories, db_deleting.id, db_deleting.caller)
                   THEN [db_categories[i] EXCEPT !.exists = FALSE]
                   ELSE db_categories[i]]
    /\ UNCHANGED <<notDbVars, db_products, db_rls>>

\* ---------------------------------------------- product images in the bucket
\* A string is a sequence of pieces: "products", "/", and the letters of user
\* ids and file names.
KeyPieces == {"products", "/", "u", "v", "f"}
RECURSIVE SeqsUpTo(_, _)
SeqsUpTo(S, n) ==
    IF n = 0 THEN {<<>>}
    ELSE LET shorter == SeqsUpTo(S, n - 1)
         IN shorter \cup {Append(q, x) : q \in {r \in shorter : Len(r) = n - 1}, x \in S}
Keys == SeqsUpTo(KeyPieces, MaxKeyLen)

\* user.id
UserId(u) == CASE u = "U" -> <<"u">> [] u = "V" -> <<"v">>

\* String.prototype.startsWith
R2_startsWith(str, prefix) ==
    /\ Len(str) >= Len(prefix)
    /\ SubSeq(str, 1, Len(prefix)) = prefix

\* `products/${user.id}/` with the check of the user left out.
R2_userPrefix_anyUser(u) == <<"products", "/">>
\* `products/${user.id}/`
R2_userPrefix(u) == <<"products", "/">> \o UserId(u) \o <<"/">>

\* deleteProductImage(imageUrl).  getKeyFromUrl and deleteFromR2 come from the
\* R2 client: the first answers with r2_key or throws, the second removes the
\* object or throws.
deleteProductImage(keyThrows, deleteThrows) ==
    /\ r2_op = "pending"
    /\ r2_op' = "delete"
    /\ LET checked == /\ Authenticated(r2_caller)
                      /\ r2_urlGiven
                      /\ ~keyThrows
                      /\ R2_startsWith(r2_key, R2_userPrefix(r2_caller))
       IN /\ r2_calls' = IF checked
                         THEN <<[fn |-> "deleteFromR2", key |-> r2_key]>>
                         ELSE <<>>
          /\ r2_objects' = IF checked /\ ~deleteThrows
                           THEN r2_objects \ {r2_key}
                           ELSE r2_objects
          /\ r2_success' = (checked /\ ~deleteThrows)
    /\ UNCHANGED <<notR2Vars, r2_caller, r2_urlGiven, r2_key, r2_file>>

\* `!file || file.size === 0`: the field is missing or an empty string, or the
\* file has no bytes.
R2_noFile(file) == file.kind = "none" \/ (file.kind = "file" /\ file.size = 0)

\* The type of the `file` field: a field that is a string has none.
R2_fileType(file) == IF file.kind = "file" THEN file.type ELSE "undefined"

\* `file.size > MAX_FILE_SIZE`: no size is never greater.
R2_tooLarge_never(file) == FALSE
R2_tooLarge(file) == file.kind = "file" /\ file.size > MAX_FILE_SIZE

\* uploadProductImage(formData).  `name` is `${timestamp}-${random}.webp`;
\* validateImageDimensions only logs, whatever it answers.  uploadToR2 comes
\* from the R2 client: it stores the object or throws.
uploadProductImage(name, uploadThrows) ==
    /\ r2_op = "pending"
    /\ r2_op' = "upload"
    /\ LET checked == /\ Authenticated(r2_caller)
                      /\ ~R2_noFile(r2_file)
                      /\ R2_fileType(r2_file) \in ALLOWED_IMAGE_TYPES
                      /\ ~R2_tooLarge(r2_file)
           key == R2_userPrefix(r2_caller) \o <<name>>
       IN /\ r2_calls' = IF checked
                         THEN <<[fn |-> "uploadToR2", key |-> key]>>
                         ELSE <<>>
          /\ r2_objects' = IF checked /\ ~uploadThrows
                           THEN r2_objects \cup {key}
                           ELSE r2_objects
          /\ r2_success' = (checked /\ ~uploadThrows)
    /\ UNCHANGED <<notR2Vars, r2_caller, r2_urlGiven, r2_key, r2_file>>

\* ------------------------------------------- the scan history in the D1 table
\* The rows `WHERE user_id = ?` keeps, with the condition left out.
HIST_where_everyUser(userId) == DOMAIN hist_rows
\* The rows `WHERE user_id = ?` keeps.
HIST_where(userId) == {i \in DOMAIN hist_rows : hist_rows[i].user_id = userId}

\* queryInventoryHistory(userId): every answer the database may give to
\* `SELECT * ... WHERE user_id = ? ORDER BY scanned_at DESC`.  The order of
\* records of the same second is the database's choice.
queryInventoryHistory(userId) ==
    LET kept == HIST_where(userId)
        n == Cardinality(kept)
        orders == {f \in [1..n -> kept] :
                      /\ \A a, b \in 1..n : a # b => f[a] # f[b]
                      /\ \A a, b \in 1..n :
                             a < b => hist_rows[f[a]].scanned_at >= hist_rows[f[b]].scanned_at}
    IN {[k \in 1..n |-> hist_rows[f[k]]] : f \in orders}

\* insertInventoryHistory(data): the table after
\* `INSERT ... VALUES (?, ..., CURRENT_TIMESTAMP)`; the id is a fresh
\* crypto.randomUUID().  The statement names the columns id, user_id,
\* product_id, product_name, barcode, stock_before, stock_after and scanned_at
\* and binds nothing else of `data`: image_url is left to the table.
insertInventoryHistory(data) ==
    Append(hist_rows, [id |-> Len(hist_rows) + 1,
                       user_id |-> data.user_id,
                       product_id |-> data.product_id,
                       stock_before |-> data.stock_before,
                       stock_after |-> data.stock_after,
                       scanned_at |-> hist_now,
                       image_url |-> "null"])

\* saveInventoryHistoryD1(productId, ..., stockBefore, stockAfter, imageUrl):
\* throws when nobody is signed in or the insert fails.
saveInventoryHistoryD1(caller, imageUrl, insertFails) ==
    /\ Len(hist_rows) < MaxHist
    /\ hist_caller' = caller
    /\ hist_op' = "save"
    /\ hist_result' = <<>>
    /\ IF Authenticated(caller) /\ ~insertFails
       THEN /\ hist_rows' = insertInventoryHistory(
                               [user_id |-> caller, product_id |-> 1,
                                stock_before |-> 0, stock_after |-> 1,
                                image_url |-> imageUrl])
            /\ hist_given' = Append(hist_given, imageUrl)
            /\ hist_threw' = FALSE
       ELSE /\ hist_rows' = hist_rows
            /\ hist_given' = hist_given
            /\ hist_threw' = TRUE
    /\ UNCHANGED <<notHistVars, hist_now>>

\* getInventoryHistoryD1(): throws when nobody is signed in or the query fails.
getInventoryHistoryD1(caller, queryFails) ==
    /\ hist_caller' = caller
    /\ hist_op' = "get"
    /\ IF Authenticated(caller) /\ ~queryFails
       THEN /\ hist_result' \in queryInventoryHistory(caller)
            /\ hist_threw' = FALSE
       ELSE /\ hist_result' = <<>>
            /\ hist_threw' = TRUE
    /\ UNCHANGED <<notHistVars, hist_rows, hist_now, hist_given>>

\* CURRENT_TIMESTAMP moves on by a second.
HIST_tick ==
    /\ hist_now < MaxTime
    /\ hist_now' = hist_now + 1
    /\ UNCHANGED <<notHistVars, hist_rows, hist_caller, hist_op, hist_result, hist_threw,
                   hist_given>>

\* ------------------------------------------------------ ImageCropModal
MIN_CROP_SIZE == 100

Max(a, b) == IF a > b THEN a ELSE b

\* normalizeRotation: JavaScript's % keeps the sign of the dividend, and
\* Math.round rounds a half up.
normalizeRotation(rotation) ==
    LET rem(a, b) == IF a >= 0 THEN a % b ELSE -((-a) % b)
        round(num, den) == (2 * num + den) \div (2 * den)
        normalized == rem(rem(rotation, 360) + 360, 360)
    IN  round(normalized, 90) * 90

\* The record the imageBounds memo builds from left, top and the effective size.
imageBounds(left, top, effectiveWidth, effectiveHeight) ==
    [left |-> left, top |-> top,
     right |-> left + effectiveWidth, bottom |-> top + effectiveHeight,
     width |-> effectiveWidth, height |-> effectiveHeight,
     x |-> left, y |-> top]

applyBoundsToArea(area, bounds, minSize) ==
    LET constrainedWidth == Max(minSize, Min(area.width, bounds.width))
        constrainedHeight == Max(minSize, Min(area.height, bounds.height))
        constrainedX == Max(bounds.left, Min(area.x, bounds.right - constrainedWidth))
        constrainedY == Max(bounds.top, Min(area.y, bounds.bottom - constrainedHeight))
    IN  [x |-> constrainedX, y |-> constrainedY,
         width |-> constrainedWidth, height |-> constrainedHeight]

CROP_normalizeRotation ==
    /\ crop_op = "idle"
    /\ crop_op' = "normalizeRotation"
    /\ crop_normalized' = normalizeRotation(crop_rotation)
    /\ UNCHANGED <<notUiVars, pgVars, iuVars, crop_rotation, crop_area, crop_bounds,
                   crop_applied>>

\* applyBoundsToArea(newArea, imageBounds), with the default minSize.
CROP_applyBoundsToArea ==
    /\ crop_op # "applyBoundsToArea"
    /\ crop_op' = "applyBoundsToArea"
    /\ crop_applied' = applyBoundsToArea(crop_area, crop_bounds, MIN_CROP_SIZE)
    /\ UNCHANGED <<notUiVars, pgVars, iuVars, crop_rotation, crop_normalized, crop_area,
                   crop_bounds>>

\* ------------------------------------- InventoryPage and ImageUpload
\* The page after a handler left the three flags and the code as given: the
\* form is mounted when showAddProductForm turns true and unmounted when it
\* turns false.
PG_set(menu, form, scanner, code, opener) ==
    /\ pg_showCreateMenu' = menu
    /\ pg_showAddProductForm' = form
    /\ pg_showBarcodeScanner' = scanner
    /\ pg_scannedCode' = code
    /\ pg_late' = IF pg_showBarcodeScanner /\ ~scanner THEN TRUE ELSE pg_late
    /\ pg_origin' = IF ~form THEN "none"
                    ELSE IF ~pg_showAddProductForm THEN opener
                    ELSE pg_origin
    /\ UNCHANGED <<notUiVars, iuVars, cropVars>>

\* The buttons "Crear" and "Escanear código de barras".
PG_openCreateMenu ==
    /\ PG_set(TRUE, pg_showAddProductForm, pg_showBarcodeScanner, pg_scannedCode, "none")
    /\ UNCHANGED pg_handedOff
PG_openScanner ==
    /\ PG_set(pg_showCreateMenu, pg_showAddProductForm, TRUE, pg_scannedCode, "none")
    /\ UNCHANGED pg_handedOff

\* CreateMenuModal: onClose, onSelectProduct, onSelectCategory.
PG_menuOnClose ==
    /\ pg_showCreateMenu
    /\ PG_set(FALSE, pg_showAddProductForm, pg_showBarcodeScanner, pg_scannedCode, "none")
    /\ UNCHANGED pg_handedOff
PG_onSelectProduct ==
    /\ pg_showCreateMenu
    /\ PG_set(FALSE, TRUE, pg_showBarcodeScanner, pg_scannedCode, "menu")
    /\ UNCHANGED pg_handedOff
PG_onSelectCategory ==
    /\ pg_showCreateMenu
    /\ PG_set(FALSE, pg_showAddProductForm, pg_showBarcodeScanner, pg_scannedCode, "none")
    /\ UNCHANGED pg_handedOff

\* BarcodeScannerScreen: onClose; onProductNotFound(code), which a handleScan
\* that was awaiting its lookup calls also after the scanner was hidden.
PG_scannerOnClose ==
    /\ pg_showBarcodeScanner
    /\ PG_set(pg_showCreateMenu, pg_showAddProductForm, FALSE, pg_scannedCode, "none")
    /\ UNCHANGED pg_handedOff
PG_onProductNotFound(code) ==
    /\ pg_showBarcodeScanner \/ pg_late
    /\ PG_set(pg_showCreateMenu, TRUE, FALSE, code, "handoff")
    /\ pg_handedOff' = TRUE

\* AddProductForm's onClose that forgets the scanned code.
PG_formOnClose_keepsCode ==
    /\ pg_showAddProductForm
    /\ PG_set(pg_showCreateMenu, FALSE, pg_showBarcodeScanner, pg_scannedCode, "none")
    /\ UNCHANGED pg_handedOff
\* AddProductForm: onClose, onSuccess.
PG_formOnClose ==
    /\ pg_showAddProductForm
    /\ PG_set(pg_showCreateMenu, FALSE, pg_showBarcodeScanner, NoCode, "none")
    /\ UNCHANGED pg_handedOff
PG_formOnSuccess ==
    /\ pg_showAddProductForm
    /\ PG_set(pg_showCreateMenu, pg_showAddProductForm, TRUE, NoCode, "none")
    /\ UNCHANGED pg_handedOff

\* ImageUpload.handleRemove goes on to clear the image whatever the answer.
IU_proceeds_always(out) == TRUE
\* ImageUpload.handleRemove goes on to clear the image: `result.success`.
IU_proceeds(out) == out = "success"

\* setPreview(null); onImageChange(null); onImageRemove?.()
IU_clear ==
    /\ iu_preview' = "null"
    /\ iu_url' = "null"
    /\ iu_removes' = Min(iu_removes + 1, MaxCount)

\* handleRemove up to `await deleteProductImage(currentImageUrl)`; without a
\* current image it clears at once.
IU_handleRemove ==
    /\ ~iu_deleting
    /\ IF iu_url # "null"
       THEN /\ iu_deleting' = TRUE
            /\ UNCHANGED <<iu_preview, iu_url, iu_removes, iu_result>>
       ELSE /\ IU_clear
            /\ iu_result' = "none"
            /\ UNCHANGED iu_deleting
    /\ UNCHANGED <<notUiVars, pgVars, cropVars>>

\* handleRemove after deleteProductImage answered { success: true },
\* { success: false } or rejected.
IU_deleteDone(out) ==
    /\ iu_deleting
    /\ iu_deleting' = FALSE
    /\ iu_result' = out
    /\ IF IU_proceeds(out)
       THEN IU_clear
       ELSE UNCHANGED <<iu_preview, iu_url, iu_removes>>
    /\ UNCHANGED <<notUiVars, pgVars, cropVars>>

\* handleFileChange, from the answer of uploadProductImage on: the new URL goes
\* to the parent, or the preview goes back to the current image.
IU_handleFileChange(ok) ==
    /\ ~iu_deleting
    /\ IF ok
       THEN iu_url' = "image" /\ iu_preview' = "image"
       ELSE iu_url' = iu_url /\ iu_preview' = iu_url
    /\ UNCHANGED <<notUiVars, pgVars, cropVars, iu_removes, iu_deleting, iu_result>>

\* ------------------------------------------------------- the specification
Components == {"h5", "zx", "screen"}

\* The state right after the component has mounted: its mount effect has run
\* (initScanner awaits the import, startScanner awaits selectBestCamera,
\* checkPermissions awaits getUserMedia).
ScannerInit ==
    /\ component \in Components
    /\ mounted = TRUE
    /\ frame \in Codes
    /\ scans = [i \in 1..MaxScans |-> FreeScan]
    /\ timers = {}
    /\ presented = FALSE
    /\ sinceAccept = SCAN_COOLDOWN_MS
    /\ lastOutcome = "none"
    /\ h5_isProcessingRef = FALSE
    /\ h5_lastScanAge = H5_COOLDOWN_MS
    /\ h5_scanCountRef = 0
    /\ h5_camera = "importing"
    /\ h5_closing = FALSE
    /\ h5_lastAccepted = NoCode
    /\ h5_stopCalls = 0
    /\ h5_revalidated = FALSE
    /\ zx_isScannerActive = TRUE
    /\ zx_isProcessing = FALSE
    /\ zx_notification = FALSE
    /\ zx_errorType = "none"
    /\ zx_isScannerReady = FALSE
    /\ zx_lastScannedRef = NoCode
    /\ zx_lastScanAge = SCAN_COOLDOWN_MS
    /\ zx_scanLockRef = FALSE
    /\ zx_isProcessingRef = FALSE
    /\ zx_scannerControlsRef = FALSE
    /\ zx_running = 0
    /\ zx_start = [select |-> 1, decode |-> 0]
    /\ zx_stopCalls = 0
    /\ zx_reported = "none"
    /\ sc_isScanning = TRUE
    /\ sc_lastScannedCode = NoCode
    /\ sc_rIsScanning = TRUE
    /\ sc_rLastScannedCode = NoCode
    /\ sc_hasPermission = "pending"

\* The functions taken alone are not running.
CamIdle ==
    /\ cam_devices = <<>>
    /\ cam_throws = FALSE
    /\ cam_failure = "none"
    /\ cam_selected = -1
    /\ cam_kind = "pending"

\* No server action was called.
DbNoCall ==
    /\ db_caller = "none"
    /\ db_error = "none"
    /\ db_result = "none"
    /\ db_revalidated = FALSE
    /\ db_deleting = NoDelete

\* No table row and no server action call.
DbIdle ==
    /\ db_products = <<>>
    /\ db_categories = <<>>
    /\ db_rls = FALSE
    /\ DbNoCall

\* No call of the image actions.
R2Idle ==
    /\ r2_caller = "none"
    /\ r2_urlGiven = FALSE
    /\ r2_key = <<>>
    /\ r2_file = [kind |-> "none"]
    /\ r2_objects = {}
    /\ r2_op = "pending"
    /\ r2_calls = <<>>
    /\ r2_success = FALSE

\* No record and no call of the history actions.
HistIdle ==
    /\ hist_rows = <<>>
    /\ hist_now = 0
    /\ hist_caller = "none"
    /\ hist_op = "none"
    /\ hist_result = <<>>
    /\ hist_threw = FALSE
    /\ hist_given = <<>>

\* ImageCropModal before any of its functions ran: rotation 0 and the first
\* cropArea, in an image that fills a 400 x 400 container.
CropIdle ==
    /\ crop_rotation = 0
    /\ crop_normalized = 0
    /\ crop_area = [x |-> 50, y |-> 50, width |-> 300, height |-> 300]
    /\ crop_bounds = imageBounds(0, 0, 400, 400)
    /\ crop_applied = crop_area
    /\ crop_op = "idle"

\* InventoryPage as it mounts, and an ImageUpload without an image.
UiIdle ==
    /\ pg_showCreateMenu = FALSE
    /\ pg_showAddProductForm = FALSE
    /\ pg_showBarcodeScanner = FALSE
    /\ pg_scannedCode = NoCode
    /\ pg_late = FALSE
    /\ pg_origin = "none"
    /\ pg_handedOff = FALSE
    /\ iu_url = "null"
    /\ iu_preview = "null"
    /\ iu_removes = 0
    /\ iu_deleting = FALSE
    /\ iu_result = "none"
    /\ CropIdle

AuxIdle == CamIdle /\ DbIdle /\ R2Idle /\ HistIdle /\ UiIdle

Init == ScannerInit /\ AuxIdle

\* What happens around every component: time, and the user moving barcodes.
EnvNext ==
    \/ Tick
    \/ \E c \in Codes : SetFrame(c)

Next == EnvNext \/ H5Next \/ ZXNext \/ SCNext

\* Any one of the three components.
Spec == Init /\ [][Next]_vars

\* BarcodeScannerModal alone.
InitH5 == Init /\ component = "h5"
NextH5 == EnvNext \/ H5Next
SpecH5 == InitH5 /\ [][NextH5]_vars

\* BarcodeScannerModalZXing alone.
InitZX == Init /\ component = "zx"
NextZX == EnvNext \/ ZXNext
SpecZX == InitZX /\ [][NextZX]_vars

\* BarcodeScannerScreen alone.
InitSC == Init /\ component = "screen"
NextSC == EnvNext \/ SCNext
SpecSC == InitSC /\ [][NextSC]_vars

\* BarcodeScannerScreen when every state update is rendered before anything
\* else happens: handleScan always runs with the state of the latest render.
NextSCRendered ==
    \/ SC_render
    \/ /\ <<sc_rIsScanning, sc_rLastScannedCode>> = <<sc_isScanning, sc_lastScannedCode>>
       /\ \/ EnvNext
          \/ \E granted \in BOOLEAN : SC_checkPermissions(granted)
          \/ \E c \in Codes : SC_handleScan(c)
          \/ \E i \in 1..MaxScans, out \in {"found", "none", "error", "throw"} :
                 SC_lookupDone(i, out)
          \/ \E i \in 1..MaxScans, out \in IncrementOutcomes : SC_incrementDone(i, out)
          \/ \E t \in timers : SC_timer(t)
          \/ SC_unmount
SpecSCRendered == InitSC /\ [][NextSCRendered]_vars

\* Either modal (the two components that call onStockUpdated).
InitModals == Init /\ component \in {"h5", "zx"}
NextModals == EnvNext \/ H5Next \/ ZXNext
SpecModals == InitModals /\ [][NextModals]_vars

\* The components left to themselves: nobody clicks, closes, unmounts or moves
\* the barcode; the camera keeps decoding, the calls resolve, the timers fire,
\* React renders.
H5Auto ==
    \/ OtherSessionIncrement
    \/ H5_initImported
    \/ \E ok \in BOOLEAN : H5_startDone(ok)
    \/ \E i \in 1..MaxScans, out \in {"found", "none", "error", "throw"}, quantity \in 0..MaxStock :
           H5_lookupDone(i, out, quantity)
    \/ \E i \in 1..MaxScans, out \in IncrementOutcomes : H5_incrementDone(i, out)
    \/ \E t \in timers : H5_rearm(t)
    \/ \E t \in timers : OnProductNotFoundTimer(t, "h5_notfound")

ZXAuto ==
    \/ \E device \in BOOLEAN : ZX_selectDone(device)
    \/ ZX_decodeStarted("ok")
    \/ \E f \in CameraStartFailures \cup {"unknown"} :
           ZX_decodeStarted(ZX_catchKind(ZX_startError(f)))
    \/ \E i \in 1..MaxScans, out \in {"found", "none", "error", "throw"}, net \in BOOLEAN :
           ZX_lookupDone(i, out, net)
    \/ \E i \in 1..MaxScans, out \in IncrementOutcomes, net \in BOOLEAN :
           ZX_incrementDone(i, out, net)
    \/ \E t \in timers : ZX_resume(t)
    \/ \E t \in timers : OnProductNotFoundTimer(t, "zx_notfound")

SCAuto ==
    \/ \E granted \in BOOLEAN : SC_checkPermissions(granted)
    \/ SC_render
    \/ \E i \in 1..MaxScans, out \in {"found", "none", "error", "throw"} : SC_lookupDone(i, out)
    \/ \E i \in 1..MaxScans, out \in IncrementOutcomes : SC_incrementDone(i, out)
    \/ \E t \in timers : SC_timer(t)

Decodes ==
    \/ \E c \in Codes : H5_qrCodeSuccessCallback(c)
    \/ \E c \in Codes : ZX_decodeCallback(c)
    \/ \E c \in Codes : SC_handleScan(c)

NextAuto == Tick \/ H5Auto \/ ZXAuto \/ SCAuto \/ Decodes

\* Time passes, every pending call resolves, every due timer fires and every
\* pending render happens.
FairSpec ==
    /\ Init
    /\ [][NextAuto]_vars
    /\ WF_vars(Tick)
    /\ WF_vars(H5Auto)
    /\ WF_vars(ZXAuto)
    /\ WF_vars(SCAuto)

\* BarcodeScannerModal left to itself.
NextAutoH5 == EnvNext \/ H5Auto \/ (\E c \in Codes : H5_qrCodeSuccessCallback(c))
AutoSpecH5 == InitH5 /\ [][NextAutoH5]_vars

\* The devices listed: up to MaxDevices devices with any labels.
DeviceLists == UNION {[1..n -> Labels] : n \in 0..MaxDevices}

\* selectBestCamera and the catch of startScanner on every list of devices and
\* every start failure.
InitCamera ==
    /\ ScannerInit /\ component = "zx" /\ frame = "A"
    /\ cam_devices \in DeviceLists
    /\ cam_throws \in BOOLEAN
    /\ cam_failure = "none"
    /\ cam_selected = -1
    /\ cam_kind = "pending"
    /\ DbIdle /\ R2Idle /\ HistIdle /\ UiIdle
NextCamera ==
    \/ CAM_selectBestCamera
    \/ \E f \in CameraStartFailures : CAM_startFails(f)
SpecCamera == InitCamera /\ [][NextCamera]_vars

\* Tables of MaxRows rows, owned by U and V in turn, the products in any
\* category or none, under either policy of the database.
DbTables(products) ==
    /\ ScannerInit /\ component = "h5" /\ frame = "A"
    /\ CamIdle /\ R2Idle /\ HistIdle /\ UiIdle
    /\ db_products \in [1..MaxRows -> [user_id : Users, category_id : 0..MaxRows,
                                       exists : BOOLEAN]]
    /\ \A i \in 1..MaxRows :
           /\ db_products[i].user_id = (IF i % 2 = 1 THEN "U" ELSE "V")
           /\ db_products[i].exists = (i <= products)
    /\ db_categories = [i \in 1..MaxRows |->
           [user_id |-> IF i % 2 = 1 THEN "U" ELSE "V", data |-> 0, exists |-> TRUE]]
    /\ db_rls \in BOOLEAN
    /\ DbNoCall
\* The server actions that change or delete a row.
InitDb == DbTables(MaxRows)
NextDb ==
    \/ \E caller \in Callers, id \in 1..MaxRows, category \in 0..MaxRows, dbError \in DbErrors :
           updateProduct(caller, id, category, dbError)
    \/ \E caller \in Callers, id \in 1..MaxRows, dbError \in {"none", "other"} :
           deleteProduct(caller, id, dbError)
    \/ \E caller \in Callers, id \in 1..MaxRows, data \in 0..MaxData,
          dbError \in {"none", "other"} :
           updateCategory(caller, id, data, dbError)
    \/ \E caller \in Callers, id \in 1..MaxRows, countError \in {"none", "other"} :
           deleteCategory_count(caller, id, countError)
    \/ \E dbError \in {"none", "other"} : deleteCategory(dbError)
SpecDb == InitDb /\ [][NextDb]_vars

\* addProduct and updateProduct alone, with room for one more product.
InitProducts == DbTables(MaxRows - 1)
NextProducts ==
    \/ \E caller \in Callers, category \in 0..MaxRows, dbError \in DbErrors :
           addProduct(caller, category, dbError)
    \/ \E caller \in Callers, id \in 1..MaxRows, category \in 0..MaxRows, dbError \in DbErrors :
           updateProduct(caller, id, category, dbError)
SpecProducts == InitProducts /\ [][NextProducts]_vars

\* deleteCategory next to the actions that assign a product to a category.
NextCategory ==
    \/ NextProducts
    \/ \E caller \in Callers, id \in 1..MaxRows, countError \in {"none", "other"} :
           deleteCategory_count(caller, id, countError)
    \/ \E dbError \in {"none", "other"} : deleteCategory(dbError)
SpecCategory == InitProducts /\ [][NextCategory]_vars

\* The image actions on every caller, every extracted key and every file field.
FileTypes == ALLOWED_IMAGE_TYPES \cup {"image/gif", "application/pdf", ""}
FileSizes == {0, 1, MAX_FILE_SIZE - 1, MAX_FILE_SIZE, MAX_FILE_SIZE + 1}
Files == {[kind |-> "none"], [kind |-> "string"]}
             \cup [kind : {"file"}, type : FileTypes, size : FileSizes]
InitR2 ==
    /\ ScannerInit /\ component = "h5" /\ frame = "A"
    /\ CamIdle /\ DbIdle /\ HistIdle /\ UiIdle
    /\ r2_caller \in Callers
    /\ \/ r2_urlGiven = TRUE /\ r2_key \in Keys /\ r2_file = [kind |-> "none"]
       \/ r2_urlGiven = FALSE /\ r2_key = <<>> /\ r2_file \in Files
    /\ r2_objects = {R2_userPrefix(u) \o <<"f">> : u \in Users}
    /\ r2_op = "pending"
    /\ r2_calls = <<>>
    /\ r2_success = FALSE
NextR2 ==
    \/ \E keyThrows \in BOOLEAN, deleteThrows \in BOOLEAN :
           deleteProductImage(keyThrows, deleteThrows)
    \/ \E name \in {"f", "g"}, uploadThrows \in BOOLEAN :
           uploadProductImage(name, uploadThrows)
SpecR2 == InitR2 /\ [][NextR2]_vars

\* The history actions of every caller on a table that starts empty.
InitHist ==
    /\ ScannerInit /\ component = "h5" /\ frame = "A"
    /\ CamIdle /\ DbIdle /\ R2Idle /\ HistIdle /\ UiIdle
NextHist ==
    \/ \E caller \in Callers, imageUrl \in {"null", "products/u/f"}, insertFails \in BOOLEAN :
           saveInventoryHistoryD1(caller, imageUrl, insertFails)
    \/ \E caller \in Callers, queryFails \in BOOLEAN :
           getInventoryHistoryD1(caller, queryFails)
    \/ HIST_tick
SpecHist == InitHist /\ [][NextHist]_vars

\* InventoryPage with its menu, scanner and product form, and the ImageUpload of
\* the form.
InitUi ==
    /\ ScannerInit /\ component = "screen" /\ frame = "A"
    /\ CamIdle /\ DbIdle /\ R2Idle /\ HistIdle /\ UiIdle
NextUi ==
    \/ PG_openCreateMenu
    \/ PG_openScanner
    \/ PG_menuOnClose
    \/ PG_onSelectProduct
    \/ PG_onSelectCategory
    \/ PG_scannerOnClose
    \/ \E code \in Codes : PG_onProductNotFound(code)
    \/ PG_formOnClose
    \/ PG_formOnSuccess
    \/ IU_handleRemove
    \/ \E out \in {"success", "failure", "throw"} : IU_deleteDone(out)
    \/ \E ok \in BOOLEAN : IU_handleFileChange(ok)
SpecUi == InitUi /\ [][NextUi]_vars

\* The pure functions of ImageCropModal on drawn arguments: an integer rotation,
\* or a crop area and the bounds of an image on a grid of GridStep pixels.
Rotations == (0 - MaxRotation) .. MaxRotation
Grid == {GridStep * k : k \in 0 .. MaxGrid}
Sizes == Grid \ {0}
CropAreas == [x : Grid, y : {0, GridStep, MaxGrid * GridStep}, width : Sizes,
              height : {GridStep, MaxGrid * GridStep}]
ImageBoundsSet == {imageBounds(left, 0, width, height) :
                       left \in {0, GridStep}, width \in Sizes, height \in Sizes}
InitCrop ==
    /\ ScannerInit /\ component = "screen" /\ frame = "A"
    /\ CamIdle /\ DbIdle /\ R2Idle /\ HistIdle
    /\ pg_showCreateMenu = FALSE
    /\ pg_showAddProductForm = FALSE
    /\ pg_showBarcodeScanner = FALSE
    /\ pg_scannedCode = NoCode
    /\ pg_late = FALSE
    /\ pg_origin = "none"
    /\ pg_handedOff = FALSE
    /\ iu_url = "null"
    /\ iu_preview = "null"
    /\ iu_removes = 0
    /\ iu_deleting = FALSE
    /\ iu_result = "none"
    /\ crop_normalized = 0
    /\ crop_op = "idle"
    /\ \/ /\ crop_rotation \in Rotations
          /\ crop_area = [x |-> 50, y |-> 50, width |-> 300, height |-> 300]
          /\ crop_bounds = imageBounds(0, 0, 400, 400)
       \/ /\ crop_rotation = 0
          /\ crop_area \in CropAreas
          /\ crop_bounds \in ImageBoundsSet
    /\ crop_applied = crop_area
NextCrop ==
    \/ CROP_normalizeRotation
    \/ CROP_applyBoundsToArea
SpecCrop == InitCrop /\ [][NextCrop]_vars

\* ------------------------------------------------------------ properties
\* A step that accepts a decode event: a scan record starts its lookup.
AcceptStep ==
    \E i \in 1..MaxScans : scans[i].pc # "lookup" /\ scans'[i].pc = "lookup"

\* The component would accept a decode event of some code now.
Armed ==
    CASE component = "h5" -> h5_camera = "running" /\ H5_accepts
      [] component = "zx" -> zx_running > 0 /\ ~zx_scanLockRef /\ ~zx_isProcessingRef
      [] OTHER            -> mounted /\ sc_hasPermission = "granted" /\ sc_rIsScanning

\* The camera of BarcodeScannerModalZXing could not be started again.
ZX_cameraFailed == component = "zx" /\ zx_errorType \in {"camera", "permission"}

\* C1: in BarcodeScannerModalZXing at most one handleBarcodeScanned call is
\* unresolved at any time, whatever the decode callbacks, effect cleanups and
\* restarts, timers and clicks.
C1_ZXOneInFlight == component = "zx" => Cardinality(InFlight) <= 1

\* A scan is unresolved after the effect cleanup has already released both locks
\* and the duplicate memo.
C1_Witness ==
    /\ component = "zx" /\ mounted
    /\ Cardinality(InFlight) = 1
    /\ ~zx_scanLockRef /\ ~zx_isProcessingRef /\ zx_lastScannedRef = NoCode

\* C2: in BarcodeScannerScreen at most one handleScan call is unresolved at any
\* time, even when decode callbacks arrive before the next render.
C2_ScreenOneInFlight == component = "screen" => Cardinality(InFlight) <= 1

\* C3: in BarcodeScannerModal at most one handleBarcodeScanned call is
\* unresolved at any time, whatever the interleaving of decode callbacks, re-arm
\* timers, handleClose and the cleanup.
C3_H5OneInFlight == component = "h5" => Cardinality(InFlight) <= 1

\* C4: in BarcodeScannerModalZXing a code that was accepted is not accepted
\* again while it stays in frame and less than SCAN_COOLDOWN_MS have passed
\* since it was accepted, however the first resolution ended.
C4_OneLookupPerCooldown ==
    [][(component = "zx" /\ AcceptStep /\ presented)
         => ~(sinceAccept < SCAN_COOLDOWN_MS)]_vars

\* C5: in every component a code that stays in frame is accepted once: no
\* decode event is accepted when a scan was already accepted since the barcode
\* in frame last changed.
C5_OncePerPresentation == [][AcceptStep => ~presented]_vars

\* C6: in BarcodeScannerModal, when no scan is being processed, a code that
\* differs from the previously accepted one is accepted.
C6_DifferentCodeAccepted ==
    (/\ component = "h5"
     /\ InFlight = {}
     /\ ~h5_isProcessingRef
     /\ frame # h5_lastAccepted)
        => H5_accepts

\* C7: in the two modals every accepted scan calls incrementProductStock at most
\* once, and only when its lookup has resolved with a product.
C7_IncrementAfterFound ==
    \A i \in 1..MaxScans :
        /\ scans[i].incs <= 1
        /\ scans[i].pc = "lookup" => scans[i].incs = 0
        /\ scans[i].incs = 1 => scans[i].lk = "found"
        /\ scans[i].lk \in {"none", "error", "throw"} => scans[i].incs = 0

\* A scan of a modal has called incrementProductStock once, after its lookup
\* found the product, and has resolved with the stock updated.
C7_Witness ==
    /\ component \in {"h5", "zx"}
    /\ \E i \in 1..MaxScans :
           /\ scans[i].pc = "done" /\ scans[i].lk = "found"
           /\ scans[i].incs = 1 /\ scans[i].su = 1

\* C8: every history entry of a successful scan of BarcodeScannerModal has
\* stockAfter = stockBefore + 1.
C8_StockAfter ==
    \A i \in 1..MaxScans :
        (component = "h5" /\ scans[i].su > 0)
            => scans[i].after = scans[i].before + 1

C10_NoBackgroundRearm == [][AcceptStep => lastOutcome # "notfound"]_vars

\* C11: once the component is closed (unmounted), the outcome of a resolution
\* that was in flight is discarded: no step invokes onStockUpdated or
\* onProductNotFound for any scan.
C11_OutcomeDiscardedAfterClose ==
    [][~mounted => \A i \in 1..MaxScans :
                      /\ scans'[i].su <= scans[i].su
                      /\ scans'[i].nf <= scans[i].nf]_vars

\* C12: once BarcodeScannerModalZXing is closed (handleClose, unmount), no
\* scanner controls are running, whatever startScanner was awaiting at the close.
C12_ZXNoControlsAfterClose == (component = "zx" /\ ~mounted) => zx_running = 0

\* The step that unmounts a modal closed by one handleClose, its camera started
\* once and running until then: in BarcodeScannerModal the stop() of handleClose
\* resolves and onClose runs; in BarcodeScannerModalZXing handleClose itself.
CloseAfterStart ==
    /\ mounted /\ ~mounted'
    /\ \/ /\ component = "h5" /\ h5_closing /\ h5_stopCalls = 1
          /\ h5_camera # "stopped" /\ h5_camera' = "stopped"
       \/ /\ component = "zx" /\ zx_scannerControlsRef /\ zx_running = 1
          /\ zx_stopCalls = 0

\* C13: when a modal whose camera was started once is closed by handleClose and
\* unmounted, the underlying stop of the camera has been invoked exactly once.
C13_StopExactlyOnce ==
    [][CloseAfterStart
         => (IF component = "h5" THEN h5_stopCalls' ELSE zx_stopCalls') = 1]_vars

\* A step of the mounted BarcodeScannerModalZXing in which the lookup of a scan
\* fails (an { error } answer or a rejection).
ZX_lookupFails ==
    /\ component = "zx" /\ mounted
    /\ \E i \in 1..MaxScans : scans[i].pc = "lookup" /\ scans'[i].pc # "lookup"
    /\ lastOutcome' \in {"lookuperr", "thrown"}

\* A step of the mounted BarcodeScannerModalZXing in which the stock update of a
\* scan fails (an { error } answer or a rejection).
ZX_updateFails ==
    /\ component = "zx" /\ mounted
    /\ \E i \in 1..MaxScans : scans[i].pc = "increment" /\ scans'[i].pc # "increment"
    /\ lastOutcome' \in {"updateerr", "thrown"}

\* C14: BarcodeScannerModalZXing reports every failed lookup with the error kind
\* 'network' and every failed stock update with the error kind 'processing'.
C14_DistinctErrorKinds ==
    [][/\ ZX_lookupFails => zx_reported' = "network"
       /\ ZX_updateFails => zx_reported' = "processing"]_vars

\* C15: startScanner reports the four camera start failures (no camera,
\* permission denied, camera in use, insecure context) with four pairwise
\* distinct error kinds: the kind reported for the failure that happened is the
\* kind of no other failure.
C15_FourDistinctKinds ==
    cam_failure \in CameraStartFailures =>
        \A g \in CameraStartFailures \ {cam_failure} :
            ZX_catchKind(ZX_startError(g)) # cam_kind

\* The place of the first device whose label contains one of the rear-camera
\* words, whatever its case; 0 when there is none.
FirstRearPlace(devices) ==
    LET rear == {i \in 1..Len(devices) :
                    devices[i].word \in {"back", "rear", "trasera", "environment",
                                         "facing back"}}
    IN  IF rear = {} THEN 0 ELSE CHOOSE i \in rear : \A j \in rear : i <= j

\* C16: selectBestCamera returns the first listed device whose label contains
\* back, rear, trasera or environment (case-insensitive); without such a device
\* the last listed one (the only one when one is listed); null when no device
\* is listed or the enumeration throws.
C16_SelectBestCamera ==
    cam_selected # -1 =>
        cam_selected =
            IF cam_throws \/ Len(cam_devices) = 0 THEN 0
            ELSE IF FirstRearPlace(cam_devices) # 0 THEN FirstRearPlace(cam_devices)
            ELSE Len(cam_devices)

\* selectBestCamera chose the second of three devices: the first has no
\* rear-camera word and the second has one in upper case.
C16_Witness ==
    /\ Len(cam_devices) = 3 /\ ~cam_throws
    /\ cam_devices[1].word = "front"
    /\ cam_devices[2] = [word |-> "trasera", upper |-> TRUE]
    /\ cam_selected = 2

\* C17: updateProduct, deleteProduct, updateCategory and deleteCategory change
\* or delete only rows whose user_id is the calling user.
C17_MutationsUserScoped ==
    [][/\ \A i \in DOMAIN db_products :
             db_products'[i] # db_products[i] => db_products[i].user_id = db_caller'
       /\ \A i \in DOMAIN db_categories :
             db_categories'[i] # db_categories[i] => db_categories[i].user_id = db_caller'
      ]_vars

\* C18: deleteProductImage calls deleteFromR2 only when the caller is
\* authenticated and the key extracted from the URL starts with
\* products/{the caller's user id}/; in every other case it returns
\* success: false and no object leaves the bucket.
C18_DeleteOnlyOwnPrefix ==
    [][r2_op' = "delete" /\ r2_op = "pending" =>
          LET owned == /\ r2_caller \in Users
                       /\ Len(r2_key) >= 4
                       /\ r2_key[1] = "products" /\ r2_key[2] = "/"
                       /\ <<r2_key[3]>> = UserId(r2_caller)
                       /\ r2_key[4] = "/"
          IN /\ r2_calls' # <<>> => owned
             /\ ~owned => /\ r2_calls' = <<>>
                          /\ ~r2_success'
                          /\ r2_objects' = r2_objects]_vars

\* U deleted its own image, and in another behaviour is refused V's.
C18_Witness ==
    /\ r2_op = "delete"
    /\ r2_caller = "U"
    /\ r2_key = <<"products", "/", "u", "/", "f">>
    /\ r2_calls = <<[fn |-> "deleteFromR2", key |-> r2_key]>>
    /\ r2_success
    /\ r2_key \notin r2_objects

\* C19: uploadProductImage calls uploadToR2 only when the caller is
\* authenticated, the file is present and non-empty, its type is image/jpeg,
\* image/png or image/webp and its size is at most 5 MB; every rejection
\* returns success: false and stores nothing, and every upload uses a key that
\* starts with products/{the caller's user id}/.
C19_UploadOnlyValidFile ==
    [][r2_op' = "upload" /\ r2_op = "pending" =>
          LET valid == /\ r2_caller \in Users
                       /\ r2_file.kind = "file"
                       /\ r2_file.size > 0
                       /\ r2_file.type \in {"image/jpeg", "image/png", "image/webp"}
                       /\ r2_file.size <= 5242880
          IN /\ r2_calls' # <<>> =>
                    /\ valid
                    /\ Len(r2_calls') = 1
                    /\ r2_calls'[1].fn = "uploadToR2"
                    /\ SubSeq(r2_calls'[1].key, 1, 4)
                           = <<"products", "/">> \o UserId(r2_caller) \o <<"/">>
             /\ ~valid => /\ r2_calls' = <<>>
                          /\ ~r2_success'
                          /\ r2_objects' = r2_objects]_vars

\* V uploaded a WebP image of exactly 5 MB.
C19_Witness ==
    /\ r2_op = "upload"
    /\ r2_caller = "V"
    /\ r2_file = [kind |-> "file", type |-> "image/webp", size |-> 5242880]
    /\ r2_calls = <<[fn |-> "uploadToR2", key |-> <<"products", "/", "v", "/", "g">>]>>
    /\ r2_success
    /\ <<"products", "/", "v", "/", "g">> \in r2_objects

\* C20: the scan history is append-only and user-scoped: no call changes or
\* removes a record inserted before, and getInventoryHistoryD1 for user U
\* returns exactly the records whose user_id is U, each once, newest first by
\* scanned_at.
C20_AppendOnlyUserScoped ==
    [][/\ Len(hist_rows') >= Len(hist_rows)
       /\ \A i \in DOMAIN hist_rows : hist_rows'[i] = hist_rows[i]
       /\ (hist_op' = "get" /\ ~hist_threw') =>
              /\ {hist_result'[k] : k \in DOMAIN hist_result'}
                     = {hist_rows'[i] : i \in {j \in DOMAIN hist_rows' :
                                                  hist_rows'[j].user_id = hist_caller'}}
              /\ \A a, b \in DOMAIN hist_result' :
                     /\ a # b => hist_result'[a] # hist_result'[b]
                     /\ a < b => hist_result'[a].scanned_at >= hist_result'[b].scanned_at]_vars

\* U reads its two records, the later one first, while V has a record too.
C20_Witness ==
    /\ hist_op = "get" /\ ~hist_threw /\ hist_caller = "U"
    /\ Len(hist_rows) = 3
    /\ hist_rows[1].user_id = "U" /\ hist_rows[2].user_id = "V" /\ hist_rows[3].user_id = "U"
    /\ hist_rows[1].scanned_at < hist_rows[3].scanned_at
    /\ hist_result = <<hist_rows[3], hist_rows[1]>>

\* C21: a record saved with saveInventoryHistoryD1(..., imageUrl = u) is stored
\* with image_url = u: every record a later getInventoryHistoryD1 returns has
\* the image URL it was saved with.
C21_ImageUrlStored ==
    [][(hist_op' = "get" /\ ~hist_threw') =>
           \A k \in DOMAIN hist_result' :
               hist_result'[k].image_url = hist_given'[hist_result'[k].id]]_vars

\* C22: when the database rejects the insert of addProduct or the update of
\* updateProduct with the unique-violation code 23505, the action returns the
\* fixed message and not the message of the database, and does not revalidate
\* /inventory.
C22_DuplicateCodeMessage ==
    [][db_error' = "23505" =>
           /\ db_result' = "Ya tienes un producto con este código. Por favor usa otro código."
           /\ db_result' # DB_message("23505")
           /\ ~db_revalidated'
           /\ db_products' = db_products]_vars

\* V's update was rejected as a duplicate right after a product was added.
C22_Witness ==
    /\ db_error = "23505"
    /\ db_caller = "V"
    /\ db_result = "Ya tienes un producto con este código. Por favor usa otro código."
    /\ ~db_revalidated
    /\ \A i \in DOMAIN db_products : db_products[i].exists

\* C26: deleteCategory never deletes a category that has a product assigned to
\* it, also when a concurrent addProduct or updateProduct assigns one between
\* the count query of deleteCategory and its delete.  Only the products the
\* database shows to the caller are asked about.
C26_NoDeleteWithProducts ==
    [][\A c \in DOMAIN db_categories :
           (db_categories[c].exists /\ ~db_categories'[c].exists) =>
               \A i \in DOMAIN db_products :
                   ~(/\ db_products[i].exists
                     /\ db_products[i].category_id = c
                     /\ db_rls => db_products[i].user_id = db_caller')]_vars

\* C23: in BarcodeScannerModalZXing an error set by handleError after a failed
\* lookup or a failed stock update stays displayed (errorType not null) until
\* the user presses Reintentar or Cerrar: it is still displayed once the
\* failure has been handled and the scanner restarted.
C23_ErrorStaysDisplayed ==
    [][(ZX_lookupFails \/ ZX_updateFails) =>
           (zx_reported' # "none" /\ zx_errorType' = zx_reported')]_vars

\* C24: in BarcodeScannerScreen, after the resolution of a code c failed, c is
\* not accepted again until 1000 ms after that failure: no scan of c is accepted
\* while the reset timer of a failed scan of c still has time left.
C24_FailedCodeHeldBack ==
    [][\A i \in 1..MaxScans :
           (component = "screen" /\ scans[i].pc # "lookup" /\ scans'[i].pc = "lookup") =>
               \A t \in timers :
                   ~(/\ t.kind = "sc_memo"
                     /\ t.left > 0
                     /\ scans[t.id].code = scans'[i].code)]_vars

\* C25: in BarcodeScannerModal, a handleClose after at least one scan was
\* accepted during the session (scanCountRef > 0) calls revalidateInventory,
\* and a handleClose without an accepted scan does not.
C25_RevalidateAfterScans ==
    [][(\E rejects \in BOOLEAN : H5_handleClose(rejects)) =>
           (h5_revalidated' <=> h5_scanCountRef > 0)]_vars

\* C27: in InventoryPage scannedCode is non-null only while the add-product
\* form is shown; the not-found handoff of the scanner shows the form with
\* initialCode equal to the code passed to onProductNotFound; and a form that
\* the create menu opens receives initialCode = null.
C27_ScannedCodeOnlyInForm ==
    [][/\ pg_scannedCode' # NoCode => pg_showAddProductForm'
       /\ \A code \in Codes :
              PG_onProductNotFound(code) =>
                  (pg_showAddProductForm' /\ pg_scannedCode' = code)
       /\ (pg_origin' = "menu" /\ pg_origin # "menu") => pg_scannedCode' = NoCode]_vars

\* After a handoff and its form, the create menu has opened a new form.
C27_Witness ==
    /\ pg_handedOff
    /\ pg_showAddProductForm
    /\ pg_origin = "menu"
    /\ pg_scannedCode = NoCode

\* C28: in ImageUpload.handleRemove, when a current image exists and
\* deleteProductImage returns success: false or throws, the preview and the
\* parent's image URL stay as they are and onImageRemove is not called; they
\* are cleared only after a successful remote delete or without a current
\* image.
C28_RemoveKeepsImageOnFailure ==
    [][/\ (\E out \in {"failure", "throw"} : IU_deleteDone(out)) =>
              /\ iu_url' = iu_url /\ iu_url # "null"
              /\ iu_preview' = iu_preview
              /\ iu_removes' = iu_removes
       /\ ((iu_url # "null" /\ iu_url' = "null") \/ iu_removes' # iu_removes) =>
              \/ iu_deleting /\ iu_result' = "success"
              \/ ~iu_deleting /\ iu_url = "null"]_vars

\* A remote delete failed and the image is still there.
C28_Witness ==
    /\ iu_result \in {"failure", "throw"}
    /\ ~iu_deleting
    /\ iu_url = "image"
    /\ iu_preview = "image"
    /\ iu_removes = 0

\* C29: for every integer rotation, positive, negative or above 360,
\* normalizeRotation returns one of 0, 90, 180 or 270.
C29_NormalizedRotation ==
    crop_normalized \in {0, 90, 180, 270}

\* C30: for every crop area and every image bounds, the area that
\* applyBoundsToArea returns lies inside the bounds, also when the image is
\* smaller than MIN_CROP_SIZE in one dimension.
C30_AreaInsideBounds ==
    crop_op = "applyBoundsToArea" =>
        /\ crop_bounds.left <= crop_applied.x
        /\ crop_applied.x + crop_applied.width <= crop_bounds.right
        /\ crop_bounds.top <= crop_applied.y
        /\ crop_applied.y + crop_applied.height <= crop_bounds.bottom
====
